---- MODULE Spec2Model ----
(***************************************************************************)
(* A model of src/pcbnew_do.py: the pcbnew automation session (argument    *)
(* checks, design-file and preference snapshots, the supervised start of   *)
(* the target with its retries, the workflow, the DRC verdict and the      *)
(* restore obligations run at exit).                                       *)
(*                                                                         *)
(* The file system, the target process and the window system are the       *)
(* environment: what the code observes of them (the outcome of a wait, of  *)
(* a poll, the files it finds) is chosen nondeterministically at the place *)
(* where the code observes it.                                             *)
(***************************************************************************)
EXTENDS Integers, Sequences, FiniteSets, TLC

VARIABLES
    args,           \* the parsed command line (argparse namespace)
    cfg,            \* the Config object: kicad6, save, pcb_size, pcb_date
    pcb,            \* the file at cfg.input_file
    bak,            \* the file at cfg.input_file + '-bak'
    pcb0,           \* history: the design file as it was before the run
    bak_by,         \* history: who created the file now at the -bak path
    now,            \* the file system's clock, stamps every write
    pc,             \* position of the main program
    rpc,            \* position inside restore_pcb
    oserror,        \* an os.* call of restore_pcb was applied to a missing file
    handlers,       \* the atexit registrations, in registration order
    created,        \* history: the snapshots taken so far
    restored,       \* history: how often each restore ran
    retry,          \* loop variable of "for retry in range(3)"
    do_retry,       \* the do_retry flag of the main program
    launches,       \* history: how many target processes were started
    xvfb,           \* number of the live virtual display, 0 when there is none
    proc,           \* number of the live target process, 0 when there is none
    failed_focuse,  \* local of wait_pcbew_start
    other,          \* local of wait_pcbew_start: title seen instead of pcbnew
    polled,         \* what the startup wait and poll() learnt of the process
    error_level,    \* the error_level of the main program
    exit_level,     \* the level given to exit(), or ExceptionLevel
    status,         \* the exit status the caller of the process observes
    cause,          \* history: the reason the session ended
    steps,          \* history: what the supervisor did since the last launch
    workflows,      \* history: how many workflow drivers were started
    drc,            \* the counts parse_drc and apply_filters returned
    calls,          \* restore_pcb harness: number of completed calls
    fs0,            \* restore_pcb harness: the files before the first call
    fs1,            \* restore_pcb harness: the files after the first call
    src,            \* parse_drc harness: what the report file was written from
    report,         \* the lines of the report file at cfg.output_file
    errs,           \* cfg.errs
    wrns,           \* cfg.wrns
    ret,            \* what parse_drc returned
    err_filters,    \* cfg.err_filters: the rules load_filters read
    adj,            \* drc_errors and unconnected_pads of process_drc_out
    adj1,           \* filter harness: adj after the first application
    applied,        \* filter harness: how often the filters were applied
    used_layers,    \* the layer ids create_pcbnew_config marks as requested
    out,            \* what is at cfg.output_file
    wpc,            \* position inside the workflow driver
    artifact,       \* history: the engine saw the output file of this run
    prefs,          \* who wrote the file now at cfg.conf_pcbnew
    procs,          \* idle harness: the processes psutil.process_iter yields
    idle_timeout,   \* idle harness: the argument of _wait_for_pcbnew_idle
    sampled,        \* idle harness: the cpu_percent values the loop has read
    own,            \* idle harness: the load of this session's target then
    finished,       \* local of _wait_for_pcbnew_idle
    verdict         \* idle harness: what _wait_for_pcbnew_idle returned

vars == <<args, cfg, pcb, bak, pcb0, bak_by, now, pc, rpc, oserror, handlers,
          created, restored, retry, do_retry, launches, xvfb, proc,
          failed_focuse, other, polled, error_level, exit_level, status,
          cause, steps, workflows, drc, calls, fs0, fs1, src, report, errs,
          wrns, ret, err_filters, adj, adj1, applied, used_layers, out, wpc,
          artifact, prefs, procs, idle_timeout, sampled, own, finished, verdict>>

fsVars   == <<pcb, bak, bak_by, now>>
loopVars == <<retry, do_retry, launches, xvfb, proc>>
waitVars == <<failed_focuse, other, polled>>
exitVars == <<exit_level, status, cause>>
parseVars == <<src, report, errs, wrns, ret, err_filters, adj, adj1, applied>>
unitVars == <<calls, fs0, fs1, parseVars>>
flowVars == <<used_layers, out, wpc, artifact, prefs>>
idleVars == <<procs, idle_timeout, sampled, own, finished, verdict>>

----------------------------------------------------------------------------
(* Bounds of the model *)

\* File contents are numbered 2..MaxContent; two contents can share a size.
MaxContent == 4
\* Modification times run from 1 to MaxTime.
MaxTime == 3

----------------------------------------------------------------------------
(* The file system *)

NoFile == [e |-> FALSE, c |-> 0, t |-> 0]

File(c, t) == [e |-> TRUE, c |-> c, t |-> t]

Contents == 2..MaxContent

\* os.path.getsize: contents 2k and 2k+1 are different bytes of equal length
Size(c) == c \div 2

Files == {File(c, t) : c \in Contents, t \in 1..MaxTime}

\* cfg.pcb_size and cfg.pcb_date before memorize_pcb ran
Unset == -1

----------------------------------------------------------------------------
(* restore_pcb, one file-system call at a time *)

\* line 532: the snapshot was taken
Memorized(c) == c.pcb_size >= 0 /\ c.pcb_date >= 0

\* mutant: the backup's size is compared with the current file's size
Mut_BackupUsable_CurrentSize(c, p, b) ==
    /\ p.t # c.pcb_date
    /\ b.e
    /\ Size(b.c) = Size(p.c)

\* mutant: the design file's date is not looked at
Mut_BackupUsable_NoDate(c, p, b) ==
    /\ b.e
    /\ Size(b.c) = c.pcb_size

\* lines 535-540: the design file changed and the backup has the recorded size
BackupUsable(c, p, b) ==
    /\ p.t # c.pcb_date
    /\ b.e
    /\ Size(b.c) = c.pcb_size

\* line 548: the engine's own backup (KiCad 6) is removed
RemovesBackup(c, b) == c.kicad6 /\ b.e

\* what a step of restore_pcb leaves alone
RestoreFrame ==
    UNCHANGED <<args, cfg, pcb0, idleVars, pc, handlers, created, restored, loopVars,
                waitVars, error_level, exitVars, steps, workflows, drc, unitVars, flowVars>>

\* lines 532-541: the checks (os.path.getmtime raises on a missing file), and
\* os.remove(cfg.input_file) when the backup is used
RestoreCheck ==
    /\ rpc = "start"
    /\ IF Memorized(cfg) /\ pcb.e /\ BackupUsable(cfg, pcb, bak)
       THEN /\ pcb' = NoFile
            /\ oserror' = (oserror \/ ~pcb.e)
            /\ rpc' = "removed"
       ELSE /\ rpc' = IF Memorized(cfg) /\ pcb.e THEN "tail" ELSE "ret"
            /\ oserror' = (oserror \/ (Memorized(cfg) /\ ~pcb.e))
            /\ UNCHANGED pcb
    /\ UNCHANGED <<bak, bak_by, now>>
    /\ RestoreFrame

\* line 542: os.rename(bkp, cfg.input_file) keeps the backup's bytes and date
RestoreRename ==
    /\ rpc = "removed"
    /\ pcb' = bak
    /\ bak' = NoFile
    /\ bak_by' = "nobody"
    /\ oserror' = (oserror \/ ~bak.e)
    /\ rpc' = "tail"
    /\ UNCHANGED now
    /\ RestoreFrame

\* lines 548-549: os.remove(bkp)
RestoreTail ==
    /\ rpc = "tail"
    /\ IF RemovesBackup(cfg, bak)
       THEN /\ oserror' = (oserror \/ ~bak.e)
            /\ bak' = NoFile
            /\ bak_by' = "nobody"
       ELSE UNCHANGED <<bak, bak_by, oserror>>
    /\ rpc' = "ret"
    /\ UNCHANGED <<pcb, now>>
    /\ RestoreFrame

----------------------------------------------------------------------------
(* Constants of the program *)

\* The levels given to exit(), imported from kiauto.misc at lines 46-48 (the
\* values are those of the kiauto package, which is not part of src/)
WRONG_ARGUMENTS == 2
PCBNEW_CFG_PRESENT == 5
WRONG_LAYER_NAME == 6
PCBNEW_ERROR == 9
CORRUPTED_PCB == 13
\* kiauto.misc WAIT_START: the default of --wait_start, line 679
WAIT_START == 25

\* lines 52-54
TITLE_CONFIRMATION == "^Confirmation$"
TITLE_ERROR == "^Error$"
TITLE_WARNING == "^Warning$"

\* line 158: the level of the exit after an Error dialog
TargetErrorLevel == PCBNEW_ERROR

\* line 846: the level of the exit after the last failed start
StartFailureLevel == PCBNEW_ERROR

\* line 167: the level of the exit after the second wait timed out
StartTimeoutLevel == PCBNEW_ERROR

\* the level the interpreter exits with after an uncaught exception
ExceptionLevel == 1

\* line 821: for retry in range(3)
Attempts == 3

\* exit(level): the status the caller observes is the level's low 8 bits
ExitStatus(level) == level % 256

----------------------------------------------------------------------------
(* process_drc_out: the verdict of a DRC report *)

\* mutant: ignore_unconnected is not looked at
Mut_process_drc_out_KeepUnconnected(d, ignore_unconnected) ==
    LET drc_errors == d.errors - d.skip_err
        unconnected_pads == d.unconnected - d.skip_unc
    IN  IF drc_errors = 0 /\ unconnected_pads = 0
        THEN 0
        ELSE -(drc_errors + unconnected_pads)

\* lines 644-662; d.errors and d.unconnected are parse_drc's counts, d.skip_err
\* and d.skip_unc the numbers of records apply_filters elided
process_drc_out(d, ignore_unconnected) ==
    LET drc_errors == d.errors - d.skip_err
        unconnected_pads == d.unconnected - d.skip_unc
    IN  IF drc_errors = 0 /\ unconnected_pads = 0
        THEN 0
        ELSE -(drc_errors + (IF ignore_unconnected THEN 0 ELSE unconnected_pads))

----------------------------------------------------------------------------
(* parse_drc, lines 57-100. A line is a sequence of pieces of text: a piece
   is one character, or one of the literal texts the patterns are made of *)

Digits == <<"0", "1", "2", "3", "4", "5", "6", "7", "8", "9">>

IsDigit(ch) == \E i \in 1..10 : Digits[i] = ch

DigitValue(ch) == (CHOOSE i \in 1..10 : Digits[i] = ch) - 1

RECURSIVE int(_)
\* int() of a string of digits
int(s) ==
    IF s = <<>> THEN 0
    ELSE 10 * int(SubSeq(s, 1, Len(s) - 1)) + DigitValue(s[Len(s)])

RECURSIVE len(_)
\* len() of a line: the characters of its pieces
len(line) == IF line = <<>> THEN 0 ELSE Len(Head(line)) + len(Tail(line))

\* the pieces that hold white space
Spaced == {" ", "** Found ", " DRC errors **", " DRC violations **",
           " unconnected pads **", "** End of Report **"}

NoMatch == [ok |-> FALSE, code |-> <<>>, msg |-> <<>>]

\* lines 69 and 74: '^\*\* Found ([0-9]+) <tail>$', group 1 in code
FoundMatch(line, tails) ==
    IF /\ Len(line) >= 3
       /\ line[1] = "** Found "
       /\ line[Len(line)] \in tails
       /\ \A i \in 2..(Len(line) - 1) : IsDigit(line[i])
    THEN [ok |-> TRUE, code |-> SubSeq(line, 2, Len(line) - 1), msg |-> <<>>]
    ELSE NoMatch

\* line 80: '^\*\* End of Report \*\*$'
EndMatch(line) == line = <<"** End of Report **">>

\* line 67: '^ErrType\((\d+)\): (.*)'
err_regex_5(line) ==
    LET k == CHOOSE j \in 2..(Len(line) + 2) :
                 /\ j > Len(line) \/ ~IsDigit(line[j])
                 /\ \A i \in 2..(j - 1) : IsDigit(line[i])
    IN IF /\ Len(line) >= 1 /\ line[1] = "ErrType("
          /\ k > 2 /\ k + 2 <= Len(line)
          /\ line[k] = ")" /\ line[k + 1] = ":" /\ line[k + 2] = " "
       THEN [ok |-> TRUE, code |-> SubSeq(line, 2, k - 1),
             msg |-> SubSeq(line, k + 3, Len(line))]
       ELSE NoMatch

\* line 65: '^\[(\S+)\]: (.*)'; \S+ ends before the "]: " that holds the first
\* white space of the line
err_regex_6(line) ==
    LET spaces == {j \in 2..Len(line) : line[j] \in Spaced}
        s == CHOOSE j \in spaces : \A i \in spaces : j <= i
    IN IF /\ Len(line) >= 1 /\ line[1] = "["
          /\ spaces # {}
          /\ line[s] = " " /\ s >= 5
          /\ line[s - 2] = "]" /\ line[s - 1] = ":"
       THEN [ok |-> TRUE, code |-> SubSeq(line, 2, s - 3),
             msg |-> SubSeq(line, s + 1, Len(line))]
       ELSE NoMatch

\* mutant: the pattern of KiCad 6 for every version
Mut_err_regex_NoVersion(kicad6, line) == err_regex_6(line)

\* lines 64-67: the record grammar of the session's tool version
err_regex(kicad6, line) == IF kicad6 THEN err_regex_6(line) ELSE err_regex_5(line)

\* lines 86 and 94: '({}) {}'.format(m.group(1), m.group(2))
Entry(m) == <<"(">> \o m.code \o <<")", " ">> \o m.msg

\* lines 89 and 97: list.append(list.pop() + '\n' + line)
Merged(list, line) ==
    SubSeq(list, 1, Len(list) - 1) \o <<list[Len(list)] \o <<"\n">> \o line>>

\* mutant: a line of any length continues a record
Mut_parse_line_AnyLength(kicad6, st, line) ==
    LET m == err_regex(kicad6, line) IN
    IF st.in_errs /\ m.ok
    THEN [st EXCEPT !.errs = Append(@, Entry(m))]
    ELSE IF st.in_errs /\ Len(st.errs) > 0
    THEN [st EXCEPT !.errs = Merged(@, line)]
    ELSE IF st.in_wrns /\ m.ok
    THEN [st EXCEPT !.wrns = Append(@, Entry(m))]
    ELSE IF st.in_wrns /\ Len(st.wrns) > 0
    THEN [st EXCEPT !.wrns = Merged(@, line)]
    ELSE st

\* lines 83-98: a line that is no marker. st holds the locals of parse_drc and
\* the two lists
parse_line(kicad6, st, line) ==
    LET m == err_regex(kicad6, line) IN
    IF st.in_errs /\ m.ok
    THEN [st EXCEPT !.errs = Append(@, Entry(m))]
    ELSE IF st.in_errs /\ len(line) > 4 /\ Len(st.errs) > 0
    THEN [st EXCEPT !.errs = Merged(@, line)]
    ELSE IF st.in_wrns /\ m.ok
    THEN [st EXCEPT !.wrns = Append(@, Entry(m))]
    ELSE IF st.in_wrns /\ len(line) > 4 /\ Len(st.wrns) > 0
    THEN [st EXCEPT !.wrns = Merged(@, line)]
    ELSE st

RECURSIVE parse_lines(_, _, _, _)
\* lines 68-98: the loop over the lines, from line i on
parse_lines(kicad6, lines, i, st) ==
    IF i > Len(lines) THEN st
    ELSE LET line == lines[i]
             e == FoundMatch(line, {" DRC errors **", " DRC violations **"})
             u == FoundMatch(line, {" unconnected pads **"})
         IN IF e.ok
            THEN parse_lines(kicad6, lines, i + 1,
                             [st EXCEPT !.drc_errors = e.code, !.in_errs = TRUE])
            ELSE IF u.ok
            THEN parse_lines(kicad6, lines, i + 1,
                             [st EXCEPT !.unconnected_pads = u.code,
                                        !.in_errs = FALSE, !.in_wrns = TRUE])
            ELSE IF EndMatch(line)
            THEN st
            ELSE parse_lines(kicad6, lines, i + 1, parse_line(kicad6, st, line))

\* the value of src in a session that reads no report written here
NoSource == [g6 |-> FALSE, n |-> 0, m |-> 0, sec1 |-> <<>>, sec2 |-> <<>>,
             post |-> <<>>]

\* the value of ret while parse_drc has not returned
NoReturn == [raised |-> FALSE, errors |-> -1, unconnected |-> -1]

\* lines 57-100: parse_drc; drc_errors and unconnected_pads are None (here
\* <<>>) until their header is seen, and int(None) raises TypeError
parse_drc(kicad6, lines, cfg_errs, cfg_wrns) ==
    LET st == parse_lines(kicad6, lines, 1,
                          [drc_errors |-> <<>>, unconnected_pads |-> <<>>,
                           in_errs |-> FALSE, in_wrns |-> FALSE,
                           errs |-> cfg_errs, wrns |-> cfg_wrns])
    IN [errs |-> st.errs, wrns |-> st.wrns,
        ret |-> IF st.drc_errors = <<>> \/ st.unconnected_pads = <<>>
                THEN [raised |-> TRUE, errors |-> -1, unconnected |-> -1]
                ELSE [raised |-> FALSE, errors |-> int(st.drc_errors),
                      unconnected |-> int(st.unconnected_pads)]]

----------------------------------------------------------------------------
(* The main program, lines 715-858 *)

\* mutant: the with-blocks are not left
Mut_Leave_NoTeardown(level, why) ==
    /\ pc' = "atexit"
    /\ exit_level' = level
    /\ cause' = why
    /\ UNCHANGED <<status, proc, xvfb>>

\* raise SystemExit / an uncaught exception: the with-blocks of lines 823-826
\* are left (the target and its display are torn down), then the interpreter
\* runs the atexit handlers
Leave(level, why) ==
    /\ pc' = "atexit"
    /\ exit_level' = level
    /\ cause' = why
    /\ proc' = 0
    /\ xvfb' = 0
    /\ UNCHANGED status

Log(entry) == steps' = Append(steps, entry)

\* lines 633-641: load_pcb exits when the board cannot be loaded
LoadPcb ==
    /\ pc = "load_pcb"
    /\ \E loads \in BOOLEAN :
         IF loads
         THEN pc' = "memorize_pcb" /\ UNCHANGED <<exitVars, proc, xvfb>>
         ELSE Leave(CORRUPTED_PCB, "corrupted_pcb")
    /\ UNCHANGED <<args, cfg, pcb0, idleVars, fsVars, rpc, oserror, handlers, created, restored,
                   retry, do_retry, launches, waitVars, error_level, steps, workflows, drc,
                   unitVars, flowVars>>

\* lines 744-745 and 552-560: memorize_pcb, skipped under --save
MemorizePcb ==
    /\ pc = "memorize_pcb"
    /\ IF ~cfg.save
       THEN /\ cfg' = [cfg EXCEPT !.pcb_size = Size(pcb.c), !.pcb_date = pcb.t]
            /\ IF cfg.kicad6
               THEN bak' = pcb /\ bak_by' = "engine"
               ELSE UNCHANGED <<bak, bak_by>>
            /\ handlers' = Append(handlers, "restore_pcb")
            /\ created' = created \cup {"pcb"}
       ELSE UNCHANGED <<cfg, bak, bak_by, handlers, created>>
    /\ pc' = "parse_args"
    /\ UNCHANGED <<args, pcb0, idleVars, pcb, now, rpc, oserror, restored, loopVars, waitVars,
                   error_level, exitVars, steps, workflows, drc, unitVars, flowVars>>

\* mutant: a pad style above 2 is let through
Mut_PadsValid_NoUpperLimit(a) == a.scaling_num /\ a.pads_num /\ ~(a.pads < 0)

\* lines 751-763: float(args.scaling[0]) and int(args.pads[0]) do not raise
\* ValueError, and the pad style is 0, 1 or 2
PadsValid(a) == a.scaling_num /\ a.pads_num /\ ~(a.pads < 0 \/ a.pads > 2)

\* lines 747-776: the options of an export
ParseArgs ==
    /\ pc = "parse_args"
    /\ IF args.command = "export" /\ ~PadsValid(args)
       THEN Leave(WRONG_ARGUMENTS, "wrong_arguments")
       ELSE pc' = "memorize_project" /\ UNCHANGED <<exitVars, proc, xvfb>>
    /\ UNCHANGED <<args, cfg, pcb0, idleVars, fsVars, rpc, oserror, handlers, created, restored,
                   retry, do_retry, launches, waitVars, error_level, steps, workflows, drc,
                   unitVars, flowVars>>

\* line 785: memorize_project registers restore_project (unregistered at 856)
MemorizeProject ==
    /\ pc = "memorize_project"
    /\ handlers' = Append(handlers, "restore_project")
    /\ created' = created \cup {"project"}
    /\ pc' = "backup_config"
    /\ UNCHANGED <<args, cfg, pcb0, idleVars, fsVars, rpc, oserror, restored, loopVars, waitVars,
                   error_level, exitVars, steps, workflows, drc, unitVars, flowVars>>

\* lines 787-788 and 794: backup_config exits with the level it is given when a
\* backup of the preferences is already there, else registers restore_config
\* (unregistered at 854)
BackupConfig ==
    /\ pc = "backup_config"
    /\ \E present \in BOOLEAN :
         IF present
         THEN /\ Leave(PCBNEW_CFG_PRESENT, "cfg_present")
              /\ UNCHANGED <<handlers, created>>
         ELSE /\ handlers' = Append(handlers, "restore_config")
              /\ created' = created \cup {"config"}
              /\ pc' = "create_config"
              /\ UNCHANGED <<exitVars, proc, xvfb>>
    /\ UNCHANGED <<args, cfg, pcb0, idleVars, fsVars, rpc, oserror, restored, retry, do_retry,
                   launches, waitVars, error_level, steps, workflows, drc, unitVars,
                   flowVars>>

\* mutant: the last copper layer passes for an inner one
Mut_LayerValid_OffByOne(layer, layer_cnt) ==
    IF layer.inner
    THEN ~(layer.n < 1 \/ layer.n > layer_cnt - 1)
    ELSE ~(layer.n < 0)

\* lines 569-577: a name that starts with 'Inner' must match '^Inner\.([0-9]+)$'
\* (n = -1 when it does not) and have 1 <= N < layer_cnt - 1;
\* lines 580-583: any other name is valid when the board knows it (id >= 0)
LayerValid(layer, layer_cnt) ==
    IF layer.inner
    THEN ~(layer.n < 1 \/ layer.n >= layer_cnt - 1)
    ELSE ~(layer.n < 0)

RECURSIVE mark_layers(_, _, _, _)
\* lines 565-584: the loop over cfg.layers from layer i on; sys.exit at the
\* first name that is not valid, else the ids added to used_layers
mark_layers(layers, layer_cnt, i, used) ==
    IF i > Len(layers) THEN [exit |-> FALSE, used_layers |-> used]
    ELSE IF ~LayerValid(layers[i], layer_cnt)
    THEN [exit |-> TRUE, used_layers |-> used]
    ELSE mark_layers(layers, layer_cnt, i + 1, used \cup {layers[i].n})

\* lines 728 and 750: cfg.layers is empty unless exporting
CfgLayers == IF args.command = "export" THEN args.layers ELSE <<>>

\* mutant: the preferences file is opened for writing before the layers are
\* checked
Mut_CreateConfig_WritesFirst ==
    /\ pc = "create_config"
    /\ prefs' = "engine"
    /\ LET r == mark_layers(CfgLayers, cfg.layer_cnt, 1, {}) IN
         IF r.exit
         THEN Leave(WRONG_LAYER_NAME, "wrong_layer_name") /\ UNCHANGED used_layers
         ELSE /\ used_layers' = r.used_layers
              /\ pc' = "remove_output"
              /\ UNCHANGED <<exitVars, proc, xvfb>>
    /\ UNCHANGED <<args, cfg, pcb0, idleVars, fsVars, rpc, oserror, handlers, created, restored,
                   retry, do_retry, launches, waitVars, error_level, steps, workflows, drc,
                   unitVars, out, wpc, artifact>>

\* lines 563-630 and 790-798: create_pcbnew_config checks cfg.layers and then
\* opens the preferences file for writing (line 585); then the hotkeys and the
\* fp-lib-table
CreateConfig ==
    /\ pc = "create_config"
    /\ LET r == mark_layers(CfgLayers, cfg.layer_cnt, 1, {}) IN
         IF r.exit
         THEN Leave(WRONG_LAYER_NAME, "wrong_layer_name") /\ UNCHANGED <<used_layers, prefs>>
         ELSE /\ used_layers' = r.used_layers
              /\ prefs' = "engine"
              /\ pc' = "remove_output"
              /\ UNCHANGED <<exitVars, proc, xvfb>>
    /\ UNCHANGED <<args, cfg, pcb0, idleVars, fsVars, rpc, oserror, handlers, created, restored,
                   retry, do_retry, launches, waitVars, error_level, steps, workflows, drc,
                   unitVars, out, wpc, artifact>>

\* mutant: the output file is left where it is
Mut_RemoveOutput_Keeps ==
    /\ pc = "remove_output"
    /\ pc' = "work"
    /\ UNCHANGED <<exitVars, proc, xvfb>>
    /\ UNCHANGED <<args, cfg, pcb0, idleVars, fsVars, rpc, oserror, handlers, created, restored,
                   retry, do_retry, launches, waitVars, error_level, steps, workflows, drc,
                   unitVars, flowVars>>

\* lines 799-807: what os.path.exists finds at the output path is removed;
\* os.remove raises OSError for a directory
RemoveOutput ==
    /\ pc = "remove_output"
    /\ IF out = "dir"
       THEN Leave(ExceptionLevel, "exception") /\ UNCHANGED out
       ELSE /\ out' = "none"
            /\ pc' = "work"
            /\ UNCHANGED <<exitVars, proc, xvfb>>
    /\ UNCHANGED <<args, cfg, pcb0, idleVars, fsVars, rpc, oserror, handlers, created, restored,
                   retry, do_retry, launches, waitVars, error_level, steps, workflows, drc,
                   unitVars, used_layers, wpc, artifact, prefs>>

\* mutant: every command is run in the supervised target
Mut_Work_AlwaysTarget ==
    /\ pc = "work"
    /\ pc' = "attempt"
    /\ UNCHANGED <<args, cfg, pcb0, idleVars, fsVars, rpc, oserror, handlers, created, restored,
                   loopVars, waitVars, error_level, exitVars, steps, workflows, drc,
                   unitVars, flowVars>>

\* lines 813-820: the Python DRC of KiCad 6, or the supervised target
Work ==
    /\ pc = "work"
    /\ pc' = IF args.command = "run_drc" /\ cfg.kicad6 THEN "run_drc_python" ELSE "attempt"
    /\ UNCHANGED <<args, cfg, pcb0, idleVars, fsVars, rpc, oserror, handlers, created, restored,
                   loopVars, waitVars, error_level, exitVars, steps, workflows, drc,
                   unitVars, flowVars>>

\* lines 465-476 and 816-818: run_drc_python writes the report; under --save
\* the engine renames the design file to '-bak' and the board is saved in its
\* place
RunDrcPython ==
    /\ pc = "run_drc_python"
    /\ IF cfg.save
       THEN \E c \in Contents :
              /\ bak' = pcb
              /\ bak_by' = "engine"
              /\ pcb' = File(c, now + 1)
              /\ now' = now + 1
       ELSE UNCHANGED fsVars
    /\ out' = "new"
    /\ artifact' = TRUE
    /\ do_retry' = FALSE
    /\ workflows' = workflows + 1
    /\ pc' = "process_drc"
    /\ UNCHANGED <<args, cfg, pcb0, idleVars, rpc, oserror, handlers, created, restored, retry,
                   launches, xvfb, proc, waitVars, error_level, exitVars, steps, drc,
                   unitVars, used_layers, wpc, prefs>>

\* lines 821-828: a new virtual display and a new target process
StartAttempt ==
    /\ pc = "attempt"
    /\ do_retry' = FALSE
    /\ launches' = launches + 1
    /\ xvfb' = launches + 1
    /\ proc' = launches + 1
    /\ failed_focuse' = FALSE
    /\ other' = ""
    /\ polled' = "unknown"
    /\ steps' = <<>>
    /\ pc' = "wait_start"
    /\ UNCHANGED <<args, cfg, pcb0, idleVars, fsVars, rpc, oserror, handlers, created, restored,
                   retry, error_level, exitVars, workflows, drc, unitVars, flowVars>>

\* what wait_for_window can end with, given the three dialog titles and the
\* process: the main window, one of the dialogs (ValueError), a time-out
\* (RuntimeError), the process gone (CalledProcessError)
StartOutcomes ==
    {"Pcbnew", TITLE_CONFIRMATION, TITLE_WARNING, TITLE_ERROR, "timeout", "exited"}

\* lines 140-152: the first wait of wait_pcbew_start
WaitStart ==
    /\ pc = "wait_start"
    /\ \E outcome \in StartOutcomes :
         /\ Log(<<"wait", WAIT_START, outcome>>)
         /\ failed_focuse' = (outcome \notin {"Pcbnew", "exited"})
         /\ other' = IF outcome \in {TITLE_CONFIRMATION, TITLE_WARNING, TITLE_ERROR}
                     THEN outcome ELSE ""
         /\ polled' = IF outcome = "exited" THEN "exited" ELSE "unknown"
         /\ pc' = IF outcome \notin {"Pcbnew", "exited"} THEN "dismiss" ELSE "poll"
    /\ UNCHANGED <<args, cfg, pcb0, idleVars, fsVars, rpc, oserror, handlers, created, restored,
                   loopVars, error_level, exitVars, workflows, drc, unitVars, flowVars>>

\* lines 103-132: a dismiss function waits 1 s for its dialog, focuses it and
\* sends Return; dismiss_already_running then sleeps 5 s
DismissSteps(title) ==
    <<<<"wait", 1, title>>, <<"focus", 0, title>>, <<"key", 0, "Return">>>>
    \o (IF title = TITLE_CONFIRMATION THEN <<<<"sleep", 5, "">>>> ELSE <<>>)

\* mutant: the exit after the Error dialog is missing
Mut_Dismiss_ErrorGoesOn ==
    /\ pc = "dismiss"
    /\ steps' = IF other = "" THEN steps ELSE steps \o DismissSteps(other)
    /\ pc' = "wait_again"
    /\ UNCHANGED <<exitVars, proc, xvfb>>
    /\ UNCHANGED <<args, cfg, pcb0, idleVars, fsVars, rpc, oserror, handlers, created, restored,
                   retry, do_retry, launches, waitVars, error_level, workflows, drc,
                   unitVars, flowVars>>

\* lines 153-162: the dialog seen instead of pcbnew is dismissed; an Error
\* dialog ends the session. The 1 s wait of a dismiss function is not guarded:
\* its time-out is an uncaught RuntimeError
Dismiss ==
    /\ pc = "dismiss"
    /\ IF other = ""
       THEN pc' = "wait_again" /\ UNCHANGED <<steps, exitVars, proc, xvfb>>
       ELSE \E found \in BOOLEAN :
              IF ~found
              THEN /\ Log(<<"wait", 1, "timeout">>)
                   /\ Leave(ExceptionLevel, "exception")
              ELSE /\ steps' = steps \o DismissSteps(other)
                   /\ IF other = TITLE_ERROR
                      THEN Leave(TargetErrorLevel, "error_dialog")
                      ELSE pc' = "wait_again" /\ UNCHANGED <<exitVars, proc, xvfb>>
    /\ UNCHANGED <<args, cfg, pcb0, idleVars, fsVars, rpc, oserror, handlers, created, restored,
                   retry, do_retry, launches, waitVars, error_level, workflows, drc,
                   unitVars, flowVars>>

\* mutant: a second time-out leads to the next attempt
Mut_WaitAgain_Retries ==
    /\ pc = "wait_again"
    /\ \E found \in BOOLEAN :
         /\ Log(<<"wait", 5, IF found THEN "Pcbnew" ELSE "timeout">>)
         /\ pc' = IF found THEN "poll" ELSE "attempt_end"
         /\ do_retry' = ~found
    /\ UNCHANGED <<exitVars, proc, xvfb>>
    /\ UNCHANGED <<args, cfg, pcb0, idleVars, fsVars, rpc, oserror, handlers, created, restored,
                   retry, launches, waitVars, error_level, workflows, drc,
                   unitVars, flowVars>>

\* lines 163-167: the second wait for the main window, 5 s, no dialogs and no
\* process given; its time-out ends the session
WaitAgain ==
    /\ pc = "wait_again"
    /\ \E found \in BOOLEAN :
         /\ Log(<<"wait", 5, IF found THEN "Pcbnew" ELSE "timeout">>)
         /\ IF found
            THEN pc' = "poll" /\ UNCHANGED <<exitVars, proc, xvfb>>
            ELSE Leave(StartTimeoutLevel, "start_timeout")
    /\ UNCHANGED <<args, cfg, pcb0, idleVars, fsVars, rpc, oserror, handlers, created, restored,
                   retry, do_retry, launches, waitVars, error_level, workflows, drc,
                   unitVars, flowVars>>

\* lines 830-832: pcbnew_proc.poll(); a process found gone stays gone
Poll ==
    /\ pc = "poll"
    /\ \E alive \in BOOLEAN :
         /\ polled = "exited" => ~alive
         /\ polled' = IF alive THEN "alive" ELSE "exited"
         /\ do_retry' = ~alive
         /\ pc' = IF alive THEN "workflow" ELSE "attempt_end"
    /\ UNCHANGED <<args, cfg, pcb0, idleVars, fsVars, rpc, oserror, handlers, created, restored,
                   retry, launches, xvfb, proc, failed_focuse, other, error_level,
                   exitVars, steps, workflows, drc, unitVars, flowVars>>

\* The design file as the target leaves it when it writes it. Under --save
\* (lines 485-492) the engine first renames the file to '-bak'. Otherwise the
\* target may save when told to quit (lines 182-187): KiCad 5 then moves the
\* old file to '-bak' itself, KiCad 6 does not (line 558)
TargetWrites(c) ==
    /\ pcb' = File(c, now + 1)
    /\ now' = now + 1
    /\ IF cfg.save
       THEN bak' = pcb /\ bak_by' = "engine"
       ELSE IF cfg.kicad6
            THEN UNCHANGED <<bak, bak_by>>
            ELSE bak' = pcb /\ bak_by' = "target"

\* One step of a workflow driver. op: "key" (arg: the chords of one xdotool
\* key command) and "type" are input sent with xdotool, "window" is another
\* xdotool command, "info" a logger.info line;
\* "wait" is wait_for_window, "not_focused" wait_not_focused, "file"
\* wait_for_file_created_by_process, "idle" _wait_for_pcbnew_idle. t is the
\* time-out passed (0: the callee's default). fail says what the driver does
\* when the wait ends without what it waited for: "raise" (the RuntimeError is
\* not caught), "pass" (the driver goes on) or "return" (the driver returns);
\* skip is the number of following steps left out when the wait succeeds.
\* writes: whether the target writes the design file on that input; makes:
\* the wait's success means the output file is there
S(op, arg, t, fail, skip) ==
    [op |-> op, arg |-> arg, t |-> t, fail |-> fail, skip |-> skip,
     writes |-> "no", makes |-> FALSE]

Info(text) == S("info", text, 0, "none", 0)

Key(keys) == S("key", keys, 0, "none", 0)

\* sleep(t)
Sleep(where, t) == S("sleep", where, t, "none", 0)

\* line 135: wait_pcbnew(time=10)
wait_pcbnew(time) == S("wait", "Pcbnew", time, "raise", 0)

\* lines 170-194: both wait_not_focused calls are guarded. After the second
\* input the target may save the design file (lines 182-184)
exit_pcbnew(save) ==
    << wait_pcbnew(10),
       Key(<<"ctrl+q">>),
       S("not_focused", "Pcbnew", 5, "pass", 0),
       [Key(<<"Return", "ctrl+q">>) EXCEPT !.writes = IF save THEN "no" ELSE "may"],
       S("not_focused", "Pcbnew", 5, "pass", 0) >>

\* mutant: the dialog is not asked for a second time
Mut_open_print_dialog_NoRetry(print_dialog_keys) ==
    << Info("Open File->Print"),
       Key(print_dialog_keys),
       S("wait", "Print", 0, "raise", 0) >>

\* lines 197-215: the keys, a guarded wait for the Print dialog and, when it
\* timed out, the keys again and a wait that is not guarded
open_print_dialog(print_dialog_keys) ==
    << Info("Open File->Print"),
       Key(print_dialog_keys),
       S("wait", "Print", 0, "pass", 3),
       Info("Open File->Print (retrying)"),
       Key(print_dialog_keys),
       S("wait", "Print", 0, "raise", 0) >>

\* lines 217-243: a time-out of the wait for the viewer makes open_3d_view
\* return None, and render_3d then returns (lines 372-374)
open_3d_view(time_out_scale) ==
    << Sleep("3D viewer", 1 * time_out_scale),
       Key(<<"alt+3">>),
       S("wait", "3D Viewer", 0, "return", 0),
       Sleep("3D viewer", 1 * time_out_scale),
       S("window", "windowmove", 0, "none", 0),
       Sleep("3D viewer", 1 * time_out_scale),
       S("window", "windowsize", 0, "none", 0),
       Sleep("3D viewer", 1 * time_out_scale),
       Sleep("3D viewer", 1 * time_out_scale) >>

\* lines 247-253
print_dialog_keys(kicad6) == IF kicad6 THEN <<"ctrl+p">> ELSE <<"alt+f", "p">>

\* lines 246-318
print_layers(kicad6, fill_zones) ==
    (IF fill_zones
     THEN open_print_dialog(print_dialog_keys(kicad6))
          \o << Key(<<"Escape">>),
                S("not_focused", "Print", 0, "raise", 0),
                wait_pcbnew(10),
                Key(<<"b">>),
                Sleep("fill zones", 1),
                wait_pcbnew(10) >>
     ELSE <<>>)
    \o open_print_dialog(print_dialog_keys(kicad6))
    \o << Key(<<"shift+Tab", "shift+Tab", "shift+Tab", "shift+Tab", "Return">>),
          S("wait", "Printer dialog", 0, "raise", 0),
          Key(<<"Tab", "Home", "Tab", "Return">>),
          S("wait", "Select a filename", 2, "raise", 0),
          S("type", "output_file", 0, "none", 0),
          Key(<<"Return">>),
          S("not_focused", "Select a filename", 0, "raise", 0),
          S("wait", "Printer dialog", 0, "raise", 0),
          Key(<<"Tab", "Left", "Left", "Left", "Return">>),
          [S("file", "output_file", 0, "raise", 0) EXCEPT !.makes = TRUE],
          S("not_focused", "Printer dialog", 0, "raise", 0),
          S("wait", "Print", 0, "raise", 0),
          Key(<<"Escape">>),
          S("not_focused", "Printer dialog", 0, "raise", 0) >>
    \o exit_pcbnew(FALSE)

\* lines 320-346: True after four idle samples, False after 2*timeout samples;
\* render_3d drops the value (lines 375, 378, 382)
wait_for_pcbnew_idle(timeout) == S("idle", "pcbnew", timeout, "pass", 0)

\* lines 357-396
render_3d(time_out_scale) ==
    << wait_pcbnew(5),
       S("window", "windowmove", 0, "none", 0),
       S("window", "windowsize", 0, "none", 0),
       S("window", "windowfocus", 0, "none", 0) >>
    \o open_3d_view(time_out_scale)
    \o << wait_for_pcbnew_idle(30),
          Key(<<"Home", "F1">>),
          wait_for_pcbnew_idle(30),
          Key(<<"alt+p", "Down", "Return">>),
          wait_for_pcbnew_idle(300),
          Key(<<"alt+f", "Return">>),
          Key(<<"ctrl+a">>),
          S("type", "output_file", 0, "none", 0),
          Key(<<"Return">>),
          [S("file", "output_file", 0, "raise", 0) EXCEPT !.makes = TRUE] >>

\* lines 399-423: the 'Disk File Report Completed' dialog tells that the
\* report was written
run_drc_5_1 ==
    << Key(<<"alt+i", "d">>),
       S("wait", "DRC Control", 0, "raise", 0),
       Key(<<"Tab", "Tab", "Tab", "Tab", "space", "Tab", "Tab", "Tab", "Tab">>),
       S("type", "output_file", 0, "none", 0),
       Key(<<"Return">>),
       [S("wait", "Disk File Report Completed", 0, "raise", 0) EXCEPT !.makes = TRUE],
       Key(<<"Return">>),
       S("wait", "DRC Control", 0, "raise", 0),
       Key(<<"shift+Tab", "Return">>),
       wait_pcbnew(10) >>

\* lines 426-462
run_drc_6_0(time_out_scale) ==
    << Key(<<"ctrl+shift+i">>),
       S("wait", "DRC Control", 0, "raise", 0),
       Key(<<"Return">>),
       Sleep("DRC", 12 * time_out_scale),
       Key(<<"shift+Tab", "shift+Tab", "shift+Tab", "shift+Tab", "shift+Tab", "Return">>),
       S("wait", "Save Report to File", 0, "raise", 0),
       S("type", "output_file", 0, "none", 0),
       Key(<<"Return">>),
       [S("file", "output_file", 0, "raise", 0) EXCEPT !.makes = TRUE],
       Key(<<"Escape">>),
       wait_pcbnew(10) >>

\* lines 479-494: under --save the engine renames the design file to '-bak'
\* and sends ctrl+s, on which the target writes the file
run_drc(kicad6, save, time_out_scale) ==
    (IF kicad6 THEN run_drc_6_0(time_out_scale) ELSE run_drc_5_1)
    \o (IF save
        THEN << [Key(<<"ctrl+s">>) EXCEPT !.writes = "must"],
                S("file", "input_file", 0, "raise", 0) >>
        ELSE <<>>)
    \o exit_pcbnew(save)

\* lines 833-839: the driver of the session's command
Script ==
    CASE args.command = "export" -> print_layers(cfg.kicad6, args.fill_zones)
      [] args.command = "render_3d" -> render_3d(args.time_out_scale)
      [] OTHER -> run_drc(cfg.kicad6, cfg.save, args.time_out_scale)

\* mutant: the attempt is repeated after the driver
Mut_Workflow_Retries ==
    /\ pc = "workflow"
    /\ workflows' = workflows + 1
    /\ Log(<<"workflow", 0, args.command>>)
    /\ wpc' = 1
    /\ do_retry' = TRUE
    /\ pc' = "step"
    /\ UNCHANGED <<args, cfg, pcb0, idleVars, fsVars, rpc, oserror, handlers, created, restored,
                   retry, launches, xvfb, proc, waitVars, error_level, exitVars, drc,
                   unitVars, used_layers, out, artifact, prefs>>

\* lines 833-839: the driver is entered
Workflow ==
    /\ pc = "workflow"
    /\ workflows' = workflows + 1
    /\ Log(<<"workflow", 0, args.command>>)
    /\ wpc' = 1
    /\ pc' = "step"
    /\ UNCHANGED <<args, cfg, pcb0, idleVars, fsVars, rpc, oserror, handlers, created, restored,
                   loopVars, waitVars, error_level, exitVars, drc, unitVars,
                   used_layers, out, artifact, prefs>>

\* what a step leaves in the log: the chords sent, one entry each, the text
\* typed or logged, or what the wait ended with
Logged(s, ok) ==
    IF s.op = "key"
    THEN [i \in 1..Len(s.arg) |-> <<"key", 0, s.arg[i]>>]
    ELSE IF s.op \in {"info", "type", "window"}
    THEN <<<<s.op, 0, s.arg>>>>
    ELSE IF s.op = "sleep"
    THEN <<<<"sleep", s.t, s.arg>>>>
    ELSE <<<<s.op, s.t, IF ok THEN s.arg ELSE "timeout">>>>

\* the driver returns: to process_drc_out after run_drc (line 840), else to
\* the end of the with-blocks
Returns == pc' = IF args.command = "run_drc" THEN "process_drc" ELSE "attempt_end"

\* One step of the driver. A wait that ends without what it waited for raises
\* RuntimeError (an uncaught exception unless the driver guards the call) or,
\* for the idle wait, returns False
Step ==
    /\ pc = "step"
    /\ LET s == Script[wpc] IN
       \E ok \in BOOLEAN :
         /\ s.op \in {"info", "key", "type", "window", "sleep"} => ok
         /\ steps' = steps \o Logged(s, ok)
         /\ CASE s.writes = "must" -> \E c \in Contents : TargetWrites(c)
              [] s.writes = "may" ->
                    \E written \in BOOLEAN, c \in Contents :
                        IF written THEN TargetWrites(c) ELSE UNCHANGED fsVars
              [] OTHER -> UNCHANGED fsVars
         /\ IF ok /\ s.makes
            THEN out' = "new" /\ artifact' = TRUE
            ELSE UNCHANGED <<out, artifact>>
         /\ IF ~ok /\ s.fail = "raise"
            THEN Leave(ExceptionLevel, "exception") /\ UNCHANGED wpc
            ELSE IF ~ok /\ s.fail = "return"
            THEN Returns /\ UNCHANGED <<wpc, exitVars, proc, xvfb>>
            ELSE LET n == wpc + 1 + (IF ok THEN s.skip ELSE 0) IN
                 /\ wpc' = n
                 /\ IF n > Len(Script) THEN Returns ELSE UNCHANGED pc
                 /\ UNCHANGED <<exitVars, proc, xvfb>>
    /\ UNCHANGED <<args, cfg, pcb0, idleVars, rpc, oserror, handlers, created, restored, retry,
                   do_retry, launches, waitVars, error_level, workflows, drc, unitVars,
                   used_layers, prefs>>

\* Bound of the counts a DRC report of a session announces
MaxSessionDrc == 1

SessionReports ==
    {[errors |-> e, unconnected |-> u, skip_err |-> se, skip_unc |-> su] :
        e \in 0..MaxSessionDrc, u \in 0..MaxSessionDrc,
        se \in 0..MaxSessionDrc, su \in 0..MaxSessionDrc}

\* the value of drc while no report was read
NoReport == [errors |-> -1, unconnected |-> -1, skip_err |-> -1, skip_unc |-> -1]

\* a filter elides records of the report: no more than the report holds
WellFormed(d) == d.skip_err <= d.errors /\ d.skip_unc <= d.unconnected

\* lines 817 and 840: error_level = process_drc_out(cfg)
ProcessDrc ==
    /\ pc = "process_drc"
    /\ \E d \in (IF drc = NoReport THEN SessionReports ELSE {drc}) :
         /\ WellFormed(d)
         /\ drc' = d
         /\ error_level' = process_drc_out(d, args.ignore_unconnected)
    /\ pc' = IF proc # 0 THEN "attempt_end" ELSE "after_loop"
    /\ UNCHANGED <<args, cfg, pcb0, idleVars, fsVars, rpc, oserror, handlers, created, restored,
                   loopVars, waitVars, exitVars, steps, workflows, unitVars, flowVars>>

\* mutant: the with-blocks end without the target and its display torn down
Mut_AttemptEnd_KeepsTarget ==
    /\ pc = "attempt_end"
    /\ IF do_retry /\ retry + 1 < Attempts
       THEN retry' = retry + 1 /\ pc' = "attempt"
       ELSE retry' = retry /\ pc' = "after_loop"
    /\ UNCHANGED <<args, cfg, pcb0, idleVars, fsVars, rpc, oserror, handlers, created, restored,
                   do_retry, launches, xvfb, proc, waitVars, error_level, exitVars, steps,
                   workflows, drc, unitVars, flowVars>>

\* mutant: one attempt more
Mut_AttemptEnd_NoLimit ==
    /\ pc = "attempt_end"
    /\ proc' = 0
    /\ xvfb' = 0
    /\ IF do_retry /\ retry + 1 < Attempts + 1
       THEN retry' = retry + 1 /\ pc' = "attempt"
       ELSE retry' = retry /\ pc' = "after_loop"
    /\ UNCHANGED <<args, cfg, pcb0, idleVars, fsVars, rpc, oserror, handlers, created, restored,
                   do_retry, launches, waitVars, error_level, exitVars, steps,
                   workflows, drc, unitVars, flowVars>>

\* lines 821 and 841-843: the with-blocks end (the target and its display are
\* torn down); break unless do_retry, else the next of the three attempts
AttemptEnd ==
    /\ pc = "attempt_end"
    /\ proc' = 0
    /\ xvfb' = 0
    /\ IF do_retry /\ retry + 1 < Attempts
       THEN retry' = retry + 1 /\ pc' = "attempt"
       ELSE retry' = retry /\ pc' = "after_loop"
    /\ UNCHANGED <<args, cfg, pcb0, idleVars, fsVars, rpc, oserror, handlers, created, restored,
                   do_retry, launches, waitVars, error_level, exitVars, steps,
                   workflows, drc, unitVars, flowVars>>

\* lines 844-846
AfterLoop ==
    /\ pc = "after_loop"
    /\ error_level' = IF do_retry THEN StartFailureLevel ELSE error_level
    /\ pc' = "cleanup_pcb"
    /\ UNCHANGED <<args, cfg, pcb0, idleVars, fsVars, rpc, oserror, handlers, created, restored,
                   loopVars, waitVars, exitVars, steps, workflows, drc, unitVars, flowVars>>

\* atexit.unregister(f) drops every registration of f
Unregister(hs, f) == SelectSeq(hs, LAMBDA h : h # f)

\* lines 851-853: unless --save, restore_pcb is unregistered and called
CleanupPcb ==
    /\ pc = "cleanup_pcb" /\ rpc = "idle"
    /\ IF ~cfg.save
       THEN /\ handlers' = Unregister(handlers, "restore_pcb")
            /\ restored' = [restored EXCEPT !.pcb = @ + 1]
            /\ rpc' = "start"
            /\ pc' = "cleanup_pcb_call"
       ELSE /\ pc' = "cleanup_config"
            /\ UNCHANGED <<handlers, restored, rpc>>
    /\ UNCHANGED <<args, cfg, pcb0, idleVars, fsVars, oserror, created, loopVars, waitVars,
                   error_level, exitVars, steps, workflows, drc, unitVars, flowVars>>

\* restore_pcb returns to its caller: line 853, or the interpreter's atexit run
RestoreReturn ==
    /\ pc \in {"cleanup_pcb_call", "atexit"} /\ rpc = "ret"
    /\ rpc' = "idle"
    /\ pc' = IF pc = "cleanup_pcb_call" THEN "cleanup_config" ELSE pc
    /\ UNCHANGED <<args, cfg, pcb0, idleVars, fsVars, oserror, handlers, created, restored,
                   loopVars, waitVars, error_level, exitVars, steps, workflows, drc,
                   unitVars, flowVars>>

\* lines 854-855
CleanupConfig ==
    /\ pc = "cleanup_config"
    /\ handlers' = Unregister(handlers, "restore_config")
    /\ restored' = [restored EXCEPT !.config = @ + 1]
    /\ prefs' = "user"
    /\ pc' = "cleanup_project"
    /\ UNCHANGED <<args, cfg, pcb0, idleVars, fsVars, rpc, oserror, created, loopVars, waitVars,
                   error_level, exitVars, steps, workflows, drc, unitVars,
                   used_layers, out, wpc, artifact>>

\* lines 856-857
CleanupProject ==
    /\ pc = "cleanup_project"
    /\ handlers' = Unregister(handlers, "restore_project")
    /\ restored' = [restored EXCEPT !.project = @ + 1]
    /\ pc' = "final_exit"
    /\ UNCHANGED <<args, cfg, pcb0, idleVars, fsVars, rpc, oserror, created, loopVars, waitVars,
                   error_level, exitVars, steps, workflows, drc, unitVars, flowVars>>

\* line 858: exit(error_level)
FinalExit ==
    /\ pc = "final_exit"
    /\ Leave(error_level, IF do_retry THEN "start_failure"
                          ELSE IF error_level # 0 THEN "drc" ELSE "done")
    /\ UNCHANGED <<args, cfg, pcb0, idleVars, fsVars, rpc, oserror, handlers, created, restored,
                   retry, do_retry, launches, waitVars, error_level, steps, workflows,
                   drc, unitVars, flowVars>>

\* The interpreter's exit: the registered handlers run, last registered first
\* (restore_pcb registered at line 560), then the process ends with the level
AtExit ==
    /\ pc = "atexit" /\ rpc = "idle"
    /\ IF handlers = <<>>
       THEN /\ pc' = "exited"
            /\ status' = ExitStatus(exit_level)
            /\ UNCHANGED <<handlers, restored, rpc, prefs>>
       ELSE LET h == handlers[Len(handlers)] IN
            /\ handlers' = SubSeq(handlers, 1, Len(handlers) - 1)
            /\ restored' = IF h = "restore_pcb" THEN [restored EXCEPT !.pcb = @ + 1]
                           ELSE IF h = "restore_config"
                                THEN [restored EXCEPT !.config = @ + 1]
                                ELSE [restored EXCEPT !.project = @ + 1]
            /\ rpc' = IF h = "restore_pcb" THEN "start" ELSE rpc
            /\ prefs' = IF h = "restore_config" THEN "user" ELSE prefs
            /\ UNCHANGED <<pc, status>>
    /\ UNCHANGED <<args, cfg, pcb0, idleVars, fsVars, oserror, created, loopVars, waitVars,
                   error_level, exit_level, cause, steps, workflows, drc, unitVars,
                   used_layers, out, wpc, artifact>>

\* A signal whose default action ends the process (SIGTERM, SIGKILL): the
\* program installs no signal handler, and atexit handlers (line 560) do not
\* run for a process ended by a signal
Kill ==
    /\ pc \notin {"exited", "unit"}
    /\ pc' = "exited"
    /\ cause' = "signal"
    /\ UNCHANGED <<args, cfg, pcb0, idleVars, fsVars, rpc, oserror, handlers, created, restored,
                   loopVars, waitVars, error_level, exit_level, status, steps,
                   workflows, drc, unitVars, flowVars>>

\* Bounds of the command lines tried
MaxPads == 3
MaxLayer == 3

\* the layer names tried: 'Inner.N' for N up to MaxLayer, held as
\* [inner |-> TRUE, n |-> N], with n = -1 for a name that starts with 'Inner'
\* and is not of that form; and other names, held as [inner |-> FALSE, n |-> id]
\* with the id cfg.board.GetLayerID gives them, -1 for a name the board does
\* not know
Layers ==
    {[inner |-> TRUE, n |-> n] : n \in -1..MaxLayer}
    \cup {[inner |-> FALSE, n |-> n] : n \in -1..1}

\* the defaults of the options no command line of ArgSets sets
DefaultArgs ==
    [command |-> "export", save |-> FALSE, ignore_unconnected |-> FALSE, pads |-> 2,
     layers |-> <<[inner |-> FALSE, n |-> 0]>>, scaling_num |-> TRUE,
     pads_num |-> TRUE, fill_zones |-> FALSE, time_out_scale |-> 1]

\* argparse, lines 684-713: the options each command has. An export is tried
\* with every pad style, with a pad style or a scale that is no number, with
\* and without --fill_zones, and with every layer name; --time_out_scale is
\* 1 (the default) or 2
ArgSets ==
    {[DefaultArgs EXCEPT !.pads = p] : p \in -1..MaxPads}
    \cup {[DefaultArgs EXCEPT !.pads_num = FALSE],
          [DefaultArgs EXCEPT !.scaling_num = FALSE],
          [DefaultArgs EXCEPT !.scaling_num = FALSE, !.pads_num = FALSE],
          [DefaultArgs EXCEPT !.fill_zones = TRUE]}
    \cup {[DefaultArgs EXCEPT !.layers = <<l>>] : l \in Layers}
    \cup {[DefaultArgs EXCEPT !.command = "render_3d", !.layers = <<>>,
                              !.time_out_scale = sc] : sc \in {1, 2}}
    \cup {[DefaultArgs EXCEPT !.fill_zones = TRUE, !.time_out_scale = 2],
          [DefaultArgs EXCEPT !.command = "run_drc", !.layers = <<>>,
                              !.time_out_scale = 2]}
    \cup {[DefaultArgs EXCEPT !.command = "run_drc", !.layers = <<>>, !.save = sv,
                              !.ignore_unconnected = i] : sv, i \in BOOLEAN}

\* lines 715-743: the session before load_pcb
Init ==
    /\ args \in ArgSets
    /\ \E k6 \in BOOLEAN, cnt \in {2, 4} :
         cfg = [kicad6 |-> k6, save |-> (args.command = "run_drc" /\ args.save),
                layer_cnt |-> cnt, pcb_size |-> Unset, pcb_date |-> Unset]
    /\ pcb0 = File(2, 1)
    /\ pcb = pcb0
    /\ bak = NoFile
    /\ bak_by = "nobody"
    /\ now = 1
    /\ pc = "load_pcb"
    /\ rpc = "idle"
    /\ oserror = FALSE
    /\ handlers = <<>>
    /\ created = {}
    /\ restored = [pcb |-> 0, config |-> 0, project |-> 0]
    /\ retry = 0 /\ do_retry = FALSE /\ launches = 0 /\ xvfb = 0 /\ proc = 0
    /\ failed_focuse = FALSE /\ other = "" /\ polled = "unknown"
    /\ error_level = 0 /\ exit_level = 0 /\ status = -1 /\ cause = ""
    /\ steps = <<>>
    /\ workflows = 0
    /\ drc = NoReport
    /\ calls = 0
    /\ fs0 = <<NoFile, NoFile>>
    /\ fs1 = <<NoFile, NoFile>>
    /\ src = NoSource /\ report = <<>> /\ errs = <<>> /\ wrns = <<>> /\ ret = NoReturn
    /\ err_filters = {} /\ adj = <<0, 0>> /\ adj1 = <<0, 0>> /\ applied = 0
    /\ used_layers = {} /\ out \in {"none", "file", "dir"} /\ wpc = 0 /\ artifact = FALSE
    /\ prefs = "user"
    /\ procs = <<>> /\ idle_timeout = 0 /\ sampled = <<>> /\ own = <<>>
    /\ finished = 0 /\ verdict = "none"

Next ==
    \/ LoadPcb \/ MemorizePcb \/ ParseArgs \/ MemorizeProject \/ BackupConfig
    \/ CreateConfig \/ RemoveOutput \/ Work \/ RunDrcPython \/ StartAttempt \/ WaitStart \/ Dismiss
    \/ WaitAgain \/ Poll \/ Workflow \/ Step \/ ProcessDrc \/ AttemptEnd \/ AfterLoop
    \/ CleanupPcb \/ RestoreCheck \/ RestoreRename \/ RestoreTail \/ RestoreReturn
    \/ CleanupConfig \/ CleanupProject \/ FinalExit \/ AtExit

Spec == Init /\ [][Next]_vars

\* the same sessions, which a signal may end at any point
SpecSignal == Init /\ [][Next \/ Kill]_vars

----------------------------------------------------------------------------
(* restore_pcb on its own: any design file and backup, called twice *)

InitR ==
    /\ args = [command |-> "run_drc", save |-> FALSE, ignore_unconnected |-> FALSE,
               pads |-> 2, layers |-> <<>>, scaling_num |-> TRUE,
               pads_num |-> TRUE, fill_zones |-> FALSE,
               time_out_scale |-> 1]
    /\ pcb0 \in Files
    /\ \E k6 \in BOOLEAN, mem \in BOOLEAN :
          cfg = [kicad6 |-> k6, save |-> FALSE, layer_cnt |-> 2,
                 pcb_size |-> IF mem THEN Size(pcb0.c) ELSE Unset,
                 pcb_date |-> IF mem THEN pcb0.t ELSE Unset]
    /\ pcb \in Files
    /\ bak \in Files \cup {NoFile}
    /\ bak_by = "nobody"
    /\ now = MaxTime
    /\ pc = "unit"
    /\ rpc = "idle"
    /\ oserror = FALSE
    /\ handlers = <<>>
    /\ created = {}
    /\ restored = [pcb |-> 0, config |-> 0, project |-> 0]
    /\ retry = 0 /\ do_retry = FALSE /\ launches = 0 /\ xvfb = 0 /\ proc = 0
    /\ failed_focuse = FALSE /\ other = "" /\ polled = "unknown"
    /\ error_level = 0 /\ exit_level = 0 /\ status = -1 /\ cause = ""
    /\ steps = <<>>
    /\ workflows = 0
    /\ drc = NoReport
    /\ calls = 0
    /\ fs0 = <<NoFile, NoFile>>
    /\ fs1 = <<NoFile, NoFile>>
    /\ src = NoSource /\ report = <<>> /\ errs = <<>> /\ wrns = <<>> /\ ret = NoReturn
    /\ err_filters = {} /\ adj = <<0, 0>> /\ adj1 = <<0, 0>> /\ applied = 0
    /\ used_layers = {} /\ out = "none" /\ wpc = 0 /\ artifact = FALSE
    /\ prefs = "user"
    /\ procs = <<>> /\ idle_timeout = 0 /\ sampled = <<>> /\ own = <<>>
    /\ finished = 0 /\ verdict = "none"

\* the harness calls restore_pcb(cfg)
UnitCall ==
    /\ pc = "unit" /\ rpc = "idle" /\ calls < 2
    /\ rpc' = "start"
    /\ fs0' = IF calls = 0 THEN <<pcb, bak>> ELSE fs0
    /\ UNCHANGED <<args, cfg, pcb0, idleVars, fsVars, pc, oserror, handlers, created, restored,
                   loopVars, waitVars, error_level, exitVars, steps, workflows, drc,
                   calls, fs1, parseVars, flowVars>>

\* restore_pcb returned to the harness
UnitReturn ==
    /\ pc = "unit" /\ rpc = "ret"
    /\ rpc' = "idle"
    /\ calls' = calls + 1
    /\ fs1' = IF calls = 0 THEN <<pcb, bak>> ELSE fs1
    /\ UNCHANGED <<args, cfg, pcb0, idleVars, fsVars, pc, oserror, handlers, created, restored,
                   loopVars, waitVars, error_level, exitVars, steps, workflows, drc,
                   fs0, parseVars, flowVars>>

NextR == UnitCall \/ RestoreCheck \/ RestoreRename \/ RestoreTail \/ UnitReturn

SpecRestore == InitR /\ [][NextR]_vars

----------------------------------------------------------------------------
(* The DRC verdict of a session, from the report to the exit status: a KiCad 6
   run_drc session at line 817, for reports of up to MaxErrors errors *)

MaxErrors == 256
MaxUnconnected == 2
MaxSkip == 1

InitD ==
    /\ \E s, i \in BOOLEAN :
         /\ args = [command |-> "run_drc", save |-> s, ignore_unconnected |-> i,
                    pads |-> 2, layers |-> <<>>, scaling_num |-> TRUE,
                    pads_num |-> TRUE, fill_zones |-> FALSE,
                    time_out_scale |-> 1]
         /\ cfg = [kicad6 |-> TRUE, save |-> s, layer_cnt |-> 2,
                   pcb_size |-> IF s THEN Unset ELSE Size(2),
                   pcb_date |-> IF s THEN Unset ELSE 1]
         /\ pcb = IF s THEN File(3, 2) ELSE File(2, 1)
         /\ bak = File(2, 1)
         /\ now = IF s THEN 2 ELSE 1
         /\ handlers = IF s THEN <<"restore_project", "restore_config">>
                       ELSE <<"restore_pcb", "restore_project", "restore_config">>
         /\ created = IF s THEN {"project", "config"} ELSE {"pcb", "project", "config"}
    /\ pcb0 = File(2, 1)
    /\ bak_by = "engine"
    /\ pc = "process_drc"
    /\ rpc = "idle"
    /\ oserror = FALSE
    /\ restored = [pcb |-> 0, config |-> 0, project |-> 0]
    /\ retry = 0 /\ do_retry = FALSE /\ launches = 0 /\ xvfb = 0 /\ proc = 0
    /\ failed_focuse = FALSE /\ other = "" /\ polled = "unknown"
    /\ error_level = 0 /\ exit_level = 0 /\ status = -1 /\ cause = ""
    /\ steps = <<>>
    /\ workflows = 1
    /\ drc \in {d \in [errors : 0..MaxErrors, unconnected : 0..MaxUnconnected,
                       skip_err : 0..MaxSkip, skip_unc : 0..MaxSkip] : WellFormed(d)}
    /\ calls = 0
    /\ fs0 = <<NoFile, NoFile>>
    /\ fs1 = <<NoFile, NoFile>>
    /\ src = NoSource /\ report = <<>> /\ errs = <<>> /\ wrns = <<>> /\ ret = NoReturn
    /\ err_filters = {} /\ adj = <<0, 0>> /\ adj1 = <<0, 0>> /\ applied = 0
    /\ used_layers = {} /\ out = "new" /\ wpc = 0 /\ artifact = FALSE
    /\ prefs = "user"
    /\ procs = <<>> /\ idle_timeout = 0 /\ sampled = <<>> /\ own = <<>>
    /\ finished = 0 /\ verdict = "none"

NextD ==
    \/ ProcessDrc \/ AfterLoop \/ CleanupPcb \/ RestoreCheck \/ RestoreTail
    \/ RestoreReturn \/ CleanupConfig \/ CleanupProject \/ FinalExit \/ AtExit

SpecDrc == InitD /\ [][NextD]_vars

----------------------------------------------------------------------------
(* parse_drc on its own: report files written from a header announcing n
   errors, the lines of the errors section, a header announcing m unconnected
   pads, the lines of that section, the end marker and what follows it *)

\* the longest section, and by how much a header's count may exceed the lines
\* of its section
MaxSection == 2
MaxExcess == 1

RECURSIVE Decimal(_)
\* the digits of n
Decimal(n) ==
    IF n < 10 THEN <<Digits[n + 1]>>
    ELSE Decimal(n \div 10) \o <<Digits[(n % 10) + 1]>>

Record(code, msg) == [rec |-> TRUE, code |-> code, msg |-> msg]

Text(s) == [rec |-> FALSE, code |-> <<>>, msg |-> s]

\* the lines a section is made of: two records, a line of 4 characters and a
\* line of 5
Items(g6) ==
    (IF g6
     THEN {Record(<<"a">>, <<"x", "]", ":", " ", "y">>),
           Record(<<"b", "]", ":", "c">>, <<>>)}
     ELSE {Record(<<"4">>, <<"x", " ", "y">>), Record(<<"1", "0">>, <<>>)})
    \cup {Text(<<"x", "y", "z", "w">>), Text(<<" ", " ", " ", " ", "@">>)}

\* a record or a text as a line of the report, in the grammar of either version
Line(g6, item) ==
    IF item.rec
    THEN (IF g6 THEN <<"[">> \o item.code \o <<"]", ":", " ">> \o item.msg
          ELSE <<"ErrType(">> \o item.code \o <<")", ":", " ">> \o item.msg)
    ELSE item.msg

ErrorsHeader(g6, n) ==
    <<"** Found ">> \o Decimal(n)
    \o <<IF g6 THEN " DRC violations **" ELSE " DRC errors **">>

UnconnectedHeader(n) == <<"** Found ">> \o Decimal(n) \o <<" unconnected pads **">>

EndMarker == <<"** End of Report **">>

\* the report file written from s
ReportOf(s) ==
    <<ErrorsHeader(s.g6, s.n)>>
    \o [i \in 1..Len(s.sec1) |-> Line(s.g6, s.sec1[i])]
    \o <<UnconnectedHeader(s.m)>>
    \o [i \in 1..Len(s.sec2) |-> Line(s.g6, s.sec2[i])]
    \o <<EndMarker>>
    \o s.post

Sections(g6) == UNION {[1..k -> Items(g6)] : k \in 0..MaxSection}

\* what may follow the end marker: nothing, or a header, a record and a text
Trailers(g6) ==
    {<<>>,
     <<ErrorsHeader(g6, 9),
       Line(g6, Record(<<"7">>, <<"x">>)),
       <<" ", " ", " ", " ", "@">>>>}

Snapshots == {"pcb", "config", "project"}

InitP ==
    /\ \E g6 \in BOOLEAN, d \in 0..MaxExcess :
         \E sec1 \in Sections(g6), sec2 \in Sections(g6), post \in Trailers(g6) :
            src = [g6 |-> g6, n |-> Len(sec1) + d, m |-> Len(sec2) + d,
                   sec1 |-> sec1, sec2 |-> sec2, post |-> post]
    /\ report = ReportOf(src)
    /\ errs = <<>> /\ wrns = <<>> /\ ret = NoReturn
    /\ err_filters = {} /\ adj = <<0, 0>> /\ adj1 = <<0, 0>> /\ applied = 0
    /\ used_layers = {} /\ out = "new" /\ wpc = 0 /\ artifact = FALSE
    /\ prefs = "user"
    /\ procs = <<>> /\ idle_timeout = 0 /\ sampled = <<>> /\ own = <<>>
    /\ finished = 0 /\ verdict = "none"
    /\ args = [command |-> "run_drc", save |-> FALSE, ignore_unconnected |-> FALSE,
               pads |-> 2, layers |-> <<>>, scaling_num |-> TRUE,
               pads_num |-> TRUE, fill_zones |-> FALSE,
               time_out_scale |-> 1]
    /\ \E k6 \in BOOLEAN :
         cfg = [kicad6 |-> k6, save |-> FALSE, layer_cnt |-> 2,
                pcb_size |-> Size(2), pcb_date |-> 1]
    /\ pcb0 = File(2, 1)
    /\ pcb = pcb0
    /\ bak = IF cfg.kicad6 THEN File(2, 1) ELSE NoFile
    /\ bak_by = IF cfg.kicad6 THEN "engine" ELSE "nobody"
    /\ now = 1
    /\ pc = "parse_unit"
    /\ rpc = "idle"
    /\ oserror = FALSE
    /\ handlers = <<"restore_pcb", "restore_project", "restore_config">>
    /\ created = Snapshots
    /\ restored = [pcb |-> 0, config |-> 0, project |-> 0]
    /\ retry = 0 /\ do_retry = FALSE /\ launches = 0 /\ xvfb = 0 /\ proc = 0
    /\ failed_focuse = FALSE /\ other = "" /\ polled = "unknown"
    /\ error_level = 0 /\ exit_level = 0 /\ status = -1 /\ cause = ""
    /\ steps = <<>>
    /\ workflows = 1
    /\ drc = NoReport
    /\ calls = 0
    /\ fs0 = <<NoFile, NoFile>>
    /\ fs1 = <<NoFile, NoFile>>

\* line 646: drc_errors, unconnected_pads = parse_drc(cfg)
ParseDrc ==
    /\ pc = "parse_unit"
    /\ LET r == parse_drc(cfg.kicad6, report, errs, wrns) IN
         /\ errs' = r.errs
         /\ wrns' = r.wrns
         /\ ret' = r.ret
         /\ adj' = <<r.ret.errors, r.ret.unconnected>>
    /\ pc' = "parsed"
    /\ UNCHANGED <<args, cfg, pcb0, idleVars, fsVars, rpc, oserror, handlers, created, restored,
                   loopVars, waitVars, error_level, exitVars, steps, workflows, drc,
                   calls, fs0, fs1, src, report, err_filters, adj1, applied, flowVars>>

NextP == ParseDrc

SpecParse == InitP /\ [][NextP]_vars

----------------------------------------------------------------------------
(* The filter step of process_drc_out, lines 648-651, on its own: the report
   is parsed once and the filters are applied to it twice *)

\* a rule of the filter file: the kind of record, the record's code and a piece
\* of text the record must hold ("" for any record of that code). The rules
\* tried: one for the first error record, one that matches no record, one for
\* the second unconnected record
Rules(g6) ==
    {[kind |-> "error", code |-> (IF g6 THEN <<"a">> ELSE <<"4">>), piece |-> "x"],
     [kind |-> "error", code |-> (IF g6 THEN <<"a">> ELSE <<"4">>), piece |-> "z"],
     [kind |-> "unconnected",
      code |-> (IF g6 THEN <<"b", "]", ":", "c">> ELSE <<"1", "0">>), piece |-> ""]}

\* the rule's pattern matches the entry '(code) message'
RuleMatches(rule, entry) ==
    LET n == Len(rule.code) + 2 IN
    /\ Len(entry) >= n
    /\ SubSeq(entry, 1, n) = <<"(">> \o rule.code \o <<")">>
    /\ rule.piece = "" \/ \E i \in (n + 1)..Len(entry) : entry[i] = rule.piece

\* the entries no rule of the kind elides
Kept(list, kind, rules) ==
    SelectSeq(list, LAMBDA e : ~\E r \in rules : r.kind = kind /\ RuleMatches(r, e))

\* apply_filters: the records a rule of their kind matches are elided, and
\* their numbers returned
apply_filters(cfg_errs, cfg_wrns, rules) ==
    LET e == Kept(cfg_errs, "error", rules)
        w == Kept(cfg_wrns, "unconnected", rules)
    IN [errs |-> e, wrns |-> w,
        skip_err |-> Len(cfg_errs) - Len(e), skip_unc |-> Len(cfg_wrns) - Len(w)]

\* mutant: the count is taken from the number elided
Mut_Adjusted_Swapped(count, skip) == skip - count

\* lines 650-651: drc_errors = drc_errors-skip_err
Adjusted(count, skip) == count - skip

\* sections of records only
RecordSections(g6) ==
    UNION {[1..k -> {i \in Items(g6) : i.rec}] : k \in 0..MaxSection}

InitF ==
    /\ \E g6 \in BOOLEAN, d \in 0..MaxExcess :
         \E sec1 \in RecordSections(g6), sec2 \in RecordSections(g6) :
            src = [g6 |-> g6, n |-> Len(sec1) + d, m |-> Len(sec2) + d,
                   sec1 |-> sec1, sec2 |-> sec2, post |-> <<>>]
    /\ report = ReportOf(src)
    /\ errs = <<>> /\ wrns = <<>> /\ ret = NoReturn
    /\ err_filters \in SUBSET Rules(src.g6)
    /\ adj = <<0, 0>> /\ adj1 = <<0, 0>> /\ applied = 0
    /\ used_layers = {} /\ out = "new" /\ wpc = 0 /\ artifact = FALSE
    /\ prefs = "user"
    /\ procs = <<>> /\ idle_timeout = 0 /\ sampled = <<>> /\ own = <<>>
    /\ finished = 0 /\ verdict = "none"
    /\ args = [command |-> "run_drc", save |-> FALSE, ignore_unconnected |-> FALSE,
               pads |-> 2, layers |-> <<>>, scaling_num |-> TRUE,
               pads_num |-> TRUE, fill_zones |-> FALSE,
               time_out_scale |-> 1]
    /\ cfg = [kicad6 |-> src.g6, save |-> FALSE, layer_cnt |-> 2,
              pcb_size |-> Size(2), pcb_date |-> 1]
    /\ pcb0 = File(2, 1)
    /\ pcb = pcb0
    /\ bak = IF cfg.kicad6 THEN File(2, 1) ELSE NoFile
    /\ bak_by = IF cfg.kicad6 THEN "engine" ELSE "nobody"
    /\ now = 1
    /\ pc = "parse_unit"
    /\ rpc = "idle"
    /\ oserror = FALSE
    /\ handlers = <<"restore_pcb", "restore_project", "restore_config">>
    /\ created = Snapshots
    /\ restored = [pcb |-> 0, config |-> 0, project |-> 0]
    /\ retry = 0 /\ do_retry = FALSE /\ launches = 0 /\ xvfb = 0 /\ proc = 0
    /\ failed_focuse = FALSE /\ other = "" /\ polled = "unknown"
    /\ error_level = 0 /\ exit_level = 0 /\ status = -1 /\ cause = ""
    /\ steps = <<>>
    /\ workflows = 1
    /\ drc = NoReport
    /\ calls = 0
    /\ fs0 = <<NoFile, NoFile>>
    /\ fs1 = <<NoFile, NoFile>>

\* lines 649-651: the filters are applied and the two counts adjusted
ApplyFilters ==
    /\ pc = "parsed" /\ applied < 2
    /\ LET f == apply_filters(errs, wrns, err_filters)
           a == <<Adjusted(adj[1], f.skip_err), Adjusted(adj[2], f.skip_unc)>>
       IN /\ errs' = f.errs
          /\ wrns' = f.wrns
          /\ adj' = a
          /\ adj1' = IF applied = 0 THEN a ELSE adj1
    /\ applied' = applied + 1
    /\ UNCHANGED <<args, cfg, pcb0, idleVars, fsVars, pc, rpc, oserror, handlers, created,
                   restored, loopVars, waitVars, error_level, exitVars, steps,
                   workflows, drc, calls, fs0, fs1, src, report, ret, err_filters,
                   flowVars>>

NextF == ParseDrc \/ ApplyFilters

SpecFilter == InitF /\ [][NextF]_vars

----------------------------------------------------------------------------
(* The layer check of an export, from create_pcbnew_config to the exit: lists
   of up to MaxLayers layer names, boards of 2, 4 and 6 copper layers *)

MaxLayers == 2

InitL ==
    /\ \E k \in 1..MaxLayers :
         \E ls \in [1..k -> Layers] :
            args = [DefaultArgs EXCEPT !.layers = ls]
    /\ \E k6 \in BOOLEAN, cnt \in {2, 4, 6} :
         cfg = [kicad6 |-> k6, save |-> FALSE, layer_cnt |-> cnt,
                pcb_size |-> Size(2), pcb_date |-> 1]
    /\ pcb0 = File(2, 1)
    /\ pcb = pcb0
    /\ bak = IF cfg.kicad6 THEN File(2, 1) ELSE NoFile
    /\ bak_by = IF cfg.kicad6 THEN "engine" ELSE "nobody"
    /\ now = 1
    /\ pc = "create_config"
    /\ rpc = "idle"
    /\ oserror = FALSE
    /\ handlers = <<"restore_pcb", "restore_project", "restore_config">>
    /\ created = Snapshots
    /\ restored = [pcb |-> 0, config |-> 0, project |-> 0]
    /\ retry = 0 /\ do_retry = FALSE /\ launches = 0 /\ xvfb = 0 /\ proc = 0
    /\ failed_focuse = FALSE /\ other = "" /\ polled = "unknown"
    /\ error_level = 0 /\ exit_level = 0 /\ status = -1 /\ cause = ""
    /\ steps = <<>>
    /\ workflows = 0
    /\ drc = NoReport
    /\ calls = 0
    /\ fs0 = <<NoFile, NoFile>>
    /\ fs1 = <<NoFile, NoFile>>
    /\ src = NoSource /\ report = <<>> /\ errs = <<>> /\ wrns = <<>> /\ ret = NoReturn
    /\ err_filters = {} /\ adj = <<0, 0>> /\ adj1 = <<0, 0>> /\ applied = 0
    /\ used_layers = {} /\ out = "none" /\ wpc = 0 /\ artifact = FALSE
    /\ prefs = "user"
    /\ procs = <<>> /\ idle_timeout = 0 /\ sampled = <<>> /\ own = <<>>
    /\ finished = 0 /\ verdict = "none"

NextL == CreateConfig \/ AtExit \/ RestoreCheck \/ RestoreTail \/ RestoreReturn

SpecLayers == InitL /\ [][NextL]_vars

----------------------------------------------------------------------------
(* _wait_for_pcbnew_idle (lines 320-346) on a machine on which the target of
   another session may run too *)

MaxTimeout == 3

\* the target this session started (cfg.pcbnew_pid) and the target of another
\* session; both run the same binary
ThisTarget == [name |-> "pcbnew", pid |-> 1]

OtherTarget == [name |-> "pcbnew", pid |-> 2]

\* what psutil.process_iter may yield
ProcLists == {<<ThisTarget>>, <<ThisTarget, OtherTarget>>, <<OtherTarget, ThisTarget>>}

\* lines 322-325: the first process of that name
find_proc(ps, name) ==
    ps[CHOOSE i \in 1..Len(ps) :
          /\ ps[i].name = name
          /\ \A k \in 1..(i - 1) : ps[k].name # name]

\* cpu_percent values on both sides of the limit of line 336
Pcts == {5, 6}

InitI ==
    /\ procs \in ProcLists
    /\ idle_timeout \in 1..MaxTimeout
    /\ sampled = <<>> /\ own = <<>>
    /\ finished = 0 /\ verdict = "running"
    /\ args = [DefaultArgs EXCEPT !.command = "render_3d", !.layers = <<>>]
    /\ cfg = [kicad6 |-> FALSE, save |-> FALSE, layer_cnt |-> 2,
              pcb_size |-> Size(2), pcb_date |-> 1]
    /\ pcb0 = File(2, 1)
    /\ pcb = pcb0
    /\ bak = NoFile
    /\ bak_by = "nobody"
    /\ now = 1
    /\ pc = "idle_unit"
    /\ rpc = "idle"
    /\ oserror = FALSE
    /\ handlers = <<"restore_pcb", "restore_project", "restore_config">>
    /\ created = Snapshots
    /\ restored = [pcb |-> 0, config |-> 0, project |-> 0]
    /\ retry = 0 /\ do_retry = FALSE /\ launches = 1 /\ xvfb = 1 /\ proc = 1
    /\ failed_focuse = FALSE /\ other = "" /\ polled = "alive"
    /\ error_level = 0 /\ exit_level = 0 /\ status = -1 /\ cause = ""
    /\ steps = <<>>
    /\ workflows = 1
    /\ drc = NoReport
    /\ calls = 0
    /\ fs0 = <<NoFile, NoFile>>
    /\ fs1 = <<NoFile, NoFile>>
    /\ src = NoSource /\ report = <<>> /\ errs = <<>> /\ wrns = <<>> /\ ret = NoReturn
    /\ err_filters = {} /\ adj = <<0, 0>> /\ adj1 = <<0, 0>> /\ applied = 0
    /\ used_layers = {} /\ out = "none" /\ wpc = 0 /\ artifact = FALSE
    /\ prefs = "user"

\* lines 330-346: one turn of the loop, and the return it may lead to. The
\* load of every process at that moment is the environment's
IdleSample ==
    /\ pc = "idle_unit" /\ verdict = "running"
    /\ Len(sampled) < 2 * idle_timeout
    /\ \E load \in [{1, 2} -> Pcts] :
         LET render_proc == find_proc(procs, "pcbnew")
             pct == load[render_proc.pid]
             n == IF pct > 5 THEN 0 ELSE finished + 1
         IN /\ sampled' = Append(sampled, pct)
            /\ own' = Append(own, load[ThisTarget.pid])
            /\ finished' = n
            /\ verdict' = IF n >= 4 THEN "True"
                          ELSE IF Len(sampled) + 1 = 2 * idle_timeout THEN "False"
                          ELSE "running"
    /\ UNCHANGED <<args, cfg, pcb0, fsVars, pc, rpc, oserror, handlers, created,
                   restored, loopVars, waitVars, error_level, exitVars, steps,
                   workflows, drc, unitVars, flowVars, procs, idle_timeout>>

NextI == IdleSample

SpecIdle == InitI /\ [][NextI]_vars

----------------------------------------------------------------------------
(* The claims *)

\* C1 (stated as claimed, checked under SpecSignal): once the process has
\* exited, by a normal return, by exit(), by an uncaught exception or by a
\* signal, every snapshot that was created had its restore invoked exactly
\* once and no '-bak' file created by the engine remains.
C1_EverySnapshotRestoredOnce ==
    pc = "exited" =>
        /\ \A k \in created : restored[k] = 1
        /\ ~(bak.e /\ bak_by = "engine")

\* C2: after a run_drc session without --save has exited, the design file has
\* the bytes and the modification time it had before the session, also when
\* the target rewrote it or a backup was made during the run.
C2_DrcLeavesPcbUnchanged ==
    (pc = "exited" /\ args.command = "run_drc" /\ ~cfg.save) => pcb = pcb0

\* C2 witness: such a session has exited after the target rewrote the design
\* file, and the file is as it was.
C2_Witness ==
    /\ pc = "exited" /\ args.command = "run_drc" /\ ~cfg.save
    /\ now > 1 /\ restored.pcb = 1 /\ pcb = pcb0

\* the design file changed and the backup is missing or not of the recorded size
Corrupted(c, p, b) ==
    /\ p.t # c.pcb_date
    /\ (~b.e \/ Size(b.c) # c.pcb_size)

\* C3 (stated as claimed, checked under SpecRestore): when restore_pcb finds
\* the design file's date changed and the backup missing or of another size,
\* it deletes and replaces nothing: the design file and the backup are after
\* the call what they were before it, for both tool versions.
C3_CorruptionKeepsBothFiles ==
    (pc = "unit" /\ calls >= 1 /\ Memorized(cfg) /\ Corrupted(cfg, fs0[1], fs0[2]))
        => fs1 = fs0

\* C4 (stated as claimed): in every state of restore_pcb, between any two of
\* its file-system calls too, a file exists at the design file's path.
C4_ReplacementAtomic ==
    rpc \in {"start", "removed", "tail", "ret"} => pcb.e

\* C5: restore_pcb called a second time leaves the files as the first call
\* left them; called for a design file that is as it was memorized, or that
\* was never memorized, it leaves the design file's bytes and date alone; and
\* none of its file-system calls fails.
C5_RestoreIdempotent ==
    pc = "unit" =>
        /\ calls = 2 => <<pcb, bak>> = fs1
        /\ (calls >= 1 /\ (~Memorized(cfg) \/ fs0[1] = pcb0)) => fs1[1] = fs0[1]
        /\ ~oserror

\* C5 witness: restore_pcb was called twice, and its first call had replaced
\* the design file by the backup.
C5_Witness ==
    pc = "unit" /\ calls = 2 /\ fs1[1] # fs0[1] /\ fs1[1] = fs0[2]

\* every snapshot taken was restored exactly once and no handler is left to run
RestoresRan ==
    /\ handlers = <<>>
    /\ created = (IF cfg.save THEN Snapshots \ {"pcb"} ELSE Snapshots)
    /\ \A k \in created : restored[k] = 1

\* C6: the target is launched at most 3 times, each time with a display and a
\* process of its own; an attempt whose process is found exited (by the
\* startup wait or by the poll after it) is a start failure; a start failure
\* is followed, once the display and the process are torn down, by a fresh
\* attempt with a new display and a new process, unless it was the third; and
\* after three start failures the session ends with PCBNEW_ERROR, a non-zero
\* status, the restores having run.
C6_StartRetries ==
    /\ [](/\ launches <= Attempts
          /\ proc # 0 => (proc = launches /\ xvfb = launches /\ launches = retry + 1)
          /\ (pc = "attempt_end" /\ polled = "exited") => do_retry
          /\ (pc = "after_loop" /\ do_retry) => launches = Attempts
          /\ (pc = "exited" /\ do_retry) =>
                (/\ exit_level = PCBNEW_ERROR
                 /\ status = PCBNEW_ERROR /\ status # 0
                 /\ RestoresRan))
    /\ [][(pc = "attempt_end" /\ do_retry /\ launches < Attempts)
            => (pc' = "attempt" /\ proc' = 0 /\ xvfb' = 0)]_vars
    /\ [][pc = "attempt"
            => (launches' = launches + 1 /\ proc' = launches' /\ xvfb' = launches')]_vars

\* C6 witness: a session has exited after its third start failure.
C6_Witness ==
    pc = "exited" /\ do_retry /\ launches = Attempts /\ cause = "start_failure"

\* the steps of this attempt from the second on begin with seq
FollowedBy(seq) ==
    /\ Len(steps) >= 1 + Len(seq)
    /\ SubSeq(steps, 2, 1 + Len(seq)) = seq

\* the wait for the main window after the dismiss sequence, once it returned
WaitedAgain ==
    LET i == 2 + Len(DismissSteps(other)) IN
    /\ Len(steps) >= i
    /\ steps[i][1] = "wait" /\ steps[i][2] = 5

\* C7 (stated as claimed): once wait_pcbew_start has handled a Confirmation or
\* Warning dialog seen instead of the main window, the dialog's dismiss
\* sequence (focus, Return) was run and the next wait is for the main window
\* with 5 seconds; a session in which an Error dialog was seen runs no workflow
\* and exits with the target-error level.
C7_DialogsAtStart ==
    /\ (other \in {TITLE_CONFIRMATION, TITLE_WARNING} /\ pc # "dismiss") =>
          /\ FollowedBy(DismissSteps(other))
          /\ pc # "wait_again" => WaitedAgain
    /\ other = TITLE_ERROR => workflows = 0
    /\ (other = TITLE_ERROR /\ pc = "exited") => exit_level = TargetErrorLevel

\* the 1-second wait of the dismiss function found its dialog
DialogFound == ~FollowedBy(<<<<"wait", 1, "timeout">>>>)

\* C7 as amended: the same, provided the 1-second wait that opens the dismiss
\* function finds the dialog; when that wait times out the session ends with
\* the uncaught exception's level, having run no workflow either.
C7_DialogsAtStart_Amended ==
    /\ (other \in {TITLE_CONFIRMATION, TITLE_WARNING} /\ pc # "dismiss" /\ DialogFound) =>
          /\ FollowedBy(DismissSteps(other))
          /\ pc # "wait_again" => WaitedAgain
    /\ other # "" /\ pc # "dismiss" /\ ~DialogFound => pc \in {"atexit", "exited"}
    /\ other = TITLE_ERROR => workflows = 0
    /\ (other = TITLE_ERROR /\ pc = "exited") =>
          exit_level = (IF DialogFound THEN TargetErrorLevel ELSE ExceptionLevel)

\* C7 witness: a Confirmation dialog was dismissed and the second wait found
\* the main window.
C7_Witness ==
    /\ other = TITLE_CONFIRMATION /\ pc = "poll"
    /\ FollowedBy(DismissSteps(TITLE_CONFIRMATION) \o <<<<"wait", 5, "Pcbnew">>>>)

\* C8 (stated as claimed): the level of the exit after three failed starts is
\* not the level of the exit after an Error dialog, and neither is one of the
\* invalid-argument, unknown-layer and corrupted-input levels.
C8_FailureLevelsDistinct ==
    pc = "exited" =>
        /\ cause = "start_failure" =>
              exit_level \notin {TargetErrorLevel, WRONG_ARGUMENTS, WRONG_LAYER_NAME,
                                 CORRUPTED_PCB}
        /\ cause = "error_dialog" =>
              exit_level \notin {StartFailureLevel, WRONG_ARGUMENTS, WRONG_LAYER_NAME,
                                 CORRUPTED_PCB}

\* the counts of a report after the filters, unconnected zeroed when ignored
PostErrors == drc.errors - drc.skip_err
PostUnconnected ==
    IF args.ignore_unconnected THEN 0 ELSE drc.unconnected - drc.skip_unc

\* C9 (stated as claimed, checked under SpecDrc): a session whose post-filter
\* total of DRC errors and unconnected pads is n >= 1 exits with a non-zero
\* status.
C9_DrcFailureStatusNonZero ==
    (pc = "exited" /\ drc # NoReport /\ PostErrors + PostUnconnected >= 1) => status # 0

\* C10: the level process_drc_out returns is 0 exactly when the post-filter
\* error count is 0 and the post-filter unconnected count is 0 or
\* ignore_unconnected is set; else it is -(errors + unconnected), unconnected
\* counting 0 under ignore_unconnected; and it is never positive.
C10_DrcLevel ==
    pc = "after_loop" =>
        /\ error_level = 0 <=>
              (PostErrors = 0 /\
                 (drc.unconnected - drc.skip_unc = 0 \/ args.ignore_unconnected))
        /\ error_level # 0 => error_level = -(PostErrors + PostUnconnected)
        /\ error_level <= 0

\* C10 witness: process_drc_out returned 0 for a report that has unconnected
\* pads left after the filters, ignore_unconnected being set.
C10_Witness ==
    /\ pc = "after_loop" /\ error_level = 0
    /\ drc.unconnected - drc.skip_unc > 0 /\ args.ignore_unconnected

\* the report is well formed in the grammar of the session's tool version:
\* as many records as each header announces, and nothing else
WellFormedReport ==
    /\ src.g6 = cfg.kicad6
    /\ src.n = Len(src.sec1) /\ src.m = Len(src.sec2)
    /\ \A i \in 1..Len(src.sec1) : src.sec1[i].rec
    /\ \A i \in 1..Len(src.sec2) : src.sec2[i].rec
    /\ src.post = <<>>

\* '(code) message'
Formatted(item) == <<"(">> \o item.code \o <<")", " ">> \o item.msg

\* C11 (checked under SpecParse): for a well-formed report of N error records
\* and M unconnected records in the grammar of the session's tool version,
\* parse_drc returns (N, M) and leaves cfg.errs holding the N error records and
\* cfg.wrns the M unconnected records, in report order, each as '(code) message'.
C11_ParseRoundTrip ==
    (pc = "parsed" /\ WellFormedReport) =>
        /\ ret = [raised |-> FALSE, errors |-> src.n, unconnected |-> src.m]
        /\ errs = [i \in 1..src.n |-> Formatted(src.sec1[i])]
        /\ wrns = [i \in 1..src.m |-> Formatted(src.sec2[i])]

\* C11 witness: a well-formed report of two different error records and an
\* unconnected record was parsed.
C11_Witness ==
    /\ pc = "parsed" /\ WellFormedReport
    /\ src.n = 2 /\ src.sec1[1] # src.sec1[2] /\ src.m >= 1
    /\ Len(errs) = 2 /\ Len(wrns) >= 1

\* the line is a record in the grammar the session reads
IsRecord(item) == item.rec /\ src.g6 = cfg.kicad6

RECURSIVE Expected(_, _)
\* what the claim says a section leaves in its list: a record adds an entry; a
\* line that is no record and is longer than 4 characters is joined by a
\* newline to the most recent entry, if there is one; any other line is ignored
Expected(sec, k) ==
    IF k = 0 THEN <<>>
    ELSE LET before == Expected(sec, k - 1)
             line == Line(src.g6, sec[k])
         IN IF IsRecord(sec[k]) THEN Append(before, Formatted(sec[k]))
            ELSE IF len(line) > 4 /\ before # <<>>
            THEN [before EXCEPT ![Len(before)] = @ \o <<"\n">> \o line]
            ELSE before

\* C12 (checked under SpecParse): a line of a section that is no record and is
\* longer than 4 characters is joined by a newline to the most recent record of
\* its section, the number of records staying what it was; such a line of at
\* most 4 characters, or one before any record of its section, is ignored; and
\* what follows the end marker changes nothing.
C12_ContinuationLines ==
    pc = "parsed" =>
        /\ errs = Expected(src.sec1, Len(src.sec1))
        /\ wrns = Expected(src.sec2, Len(src.sec2))
        /\ Len(errs) = Cardinality({i \in 1..Len(src.sec1) : IsRecord(src.sec1[i])})
        /\ Len(wrns) = Cardinality({i \in 1..Len(src.sec2) : IsRecord(src.sec2[i])})
        /\ ret = [raised |-> FALSE, errors |-> src.n, unconnected |-> src.m]

\* C12 witness: a report was parsed whose errors section is a record and a line
\* of 5 characters, whose unconnected section is a line of 5 characters and a
\* record, and whose end marker is followed by more lines.
C12_Witness ==
    /\ pc = "parsed" /\ src.post # <<>>
    /\ Len(src.sec1) = 2 /\ IsRecord(src.sec1[1])
    /\ ~src.sec1[2].rec /\ len(src.sec1[2].msg) > 4
    /\ Len(src.sec2) = 2 /\ ~src.sec2[1].rec /\ len(src.sec2[1].msg) > 4
    /\ IsRecord(src.sec2[2])
    /\ Len(errs) = 1 /\ Len(wrns) = 1

\* C13 (checked under SpecFilter): for one report and one set of filter rules,
\* the adjusted error and unconnected counts after the filters were applied
\* twice are the adjusted counts after they were applied once.
C13_FilterIdempotent ==
    applied = 2 => adj = adj1

\* C13 witness: the filters were applied twice to a report of which they elide
\* an error record, and the adjusted counts are those of the first application.
C13_Witness ==
    /\ applied = 2 /\ adj = adj1
    /\ adj1[1] < ret.errors /\ adj1[1] > 0

\* what the claim accepts: 'Inner.N' for 1 <= N <= layer_count - 2, and the
\* other names the board knows
ClaimAccepts(layer, layer_count) ==
    IF layer.inner
    THEN 1 <= layer.n /\ layer.n <= layer_count - 2
    ELSE layer.n >= 0

\* C14 (checked under SpecLayers): create_pcbnew_config goes on exactly when
\* every requested layer is an 'Inner.N' with 1 <= N <= layer_count - 2 or a
\* name the board knows, and then the layers marked are the ids N of the inner
\* layers and the ids of the others; with any other N, a malformed 'Inner...'
\* name or an unknown name the session exits with WRONG_LAYER_NAME.
C14_InnerLayers ==
    pc # "create_config" =>
        IF \A i \in 1..Len(args.layers) : ClaimAccepts(args.layers[i], cfg.layer_cnt)
        THEN /\ pc = "remove_output"
             /\ used_layers = {args.layers[i].n : i \in 1..Len(args.layers)}
        ELSE /\ cause = "wrong_layer_name"
             /\ exit_level = WRONG_LAYER_NAME
             /\ pc = "exited" => status = WRONG_LAYER_NAME
             /\ used_layers = {}

\* C14 witness: on a board of 4 copper layers a session that asked for Inner.2
\* and Inner.3 has exited with WRONG_LAYER_NAME.
C14_Witness ==
    /\ pc = "exited" /\ status = WRONG_LAYER_NAME /\ cfg.layer_cnt = 4
    /\ args.layers = <<[inner |-> TRUE, n |-> 2], [inner |-> TRUE, n |-> 3]>>

\* the pad style is no integer in 0..2, or the scale is no number
BadExportArgs ==
    /\ args.command = "export"
    /\ ~args.scaling_num \/ ~args.pads_num \/ args.pads \notin 0..2

\* what C15 says of a session: no target and no display were ever started, and
\* once exited, the level is WRONG_ARGUMENTS, the design file is as it was
\* and no '-bak' made by the engine is there
ExitsWrongArguments ==
    /\ launches = 0 /\ xvfb = 0 /\ proc = 0 /\ workflows = 0
    /\ pc = "exited" =>
          /\ exit_level = WRONG_ARGUMENTS /\ status = WRONG_ARGUMENTS
          /\ pcb = pcb0
          /\ ~(bak.e /\ bak_by = "engine")

\* C15 (stated as claimed): an export session whose pad style is no integer in
\* 0..2, or whose scale is no number, starts no target and no display and
\* exits with WRONG_ARGUMENTS, the design file unchanged and no '-bak' of the
\* engine left.
C15_BadPadsExit == BadExportArgs => ExitsWrongArguments

\* C15 as amended: the same, for the sessions whose design file loads; a design
\* file that does not load ends the session before the options are looked at.
C15_BadPadsExit_Amended ==
    (BadExportArgs /\ cause # "corrupted_pcb") => ExitsWrongArguments

\* C15 witness: a KiCad 6 export session with pad style 3 has exited with
\* WRONG_ARGUMENTS after restore_pcb removed the backup memorize_pcb made.
C15_Witness ==
    /\ pc = "exited" /\ args.command = "export" /\ args.pads = 3 /\ cfg.kicad6
    /\ status = WRONG_ARGUMENTS /\ restored.pcb = 1 /\ ~bak.e /\ pcb = pcb0

\* C16: when the first workflow action is about to be issued (the first launch
\* of the target, or the Python DRC) nothing is at the output path, and what
\* is there later was written during this session.
C16_OutputRemovedFirst ==
    /\ ((pc = "attempt" /\ launches = 0) \/ pc = "run_drc_python") => out = "none"
    /\ (launches >= 1 \/ workflows >= 1) => out \in {"none", "new"}

\* C16 witness: an export session is about to launch the target for the first
\* time and nothing is at the output path.
C16_Witness ==
    pc = "attempt" /\ launches = 0 /\ args.command = "export" /\ out = "none"

\* the log entry i is a wait that ended without what it waited for
TimedOut(i) ==
    /\ steps[i][1] \in {"wait", "not_focused", "file", "idle"}
    /\ steps[i][3] = "timeout"

\* the log entry i was written by the workflow driver
InFlow(i) == \E w \in 1..(i - 1) : steps[w][1] = "workflow"

\* C17 (stated as claimed): after an idle wait of render_3d that ended without
\* quiescence no key sequence is sent, and the workflow does not end but with
\* the time-out's exception.
C17_IdleTimeoutStops ==
    \A i \in 1..Len(steps) :
        (steps[i][1] = "idle" /\ TimedOut(i)) =>
            /\ \A j \in (i + 1)..Len(steps) : steps[j][1] \notin {"key", "type"}
            /\ pc # "step" => cause = "exception"

\* the driver ran to its last step (the Python DRC has one step)
FinalStepReached ==
    IF args.command = "run_drc" /\ cfg.kicad6
    THEN workflows = 1
    ELSE workflows = 1 /\ wpc = Len(Script) + 1

\* C18 (stated as claimed): a session that has exited with status 0 ran its
\* workflow to the final step, and the output file was confirmed created.
C18_NoPartialSuccess ==
    (pc = "exited" /\ status = 0) => (FinalStepReached /\ artifact)

\* C19 (stated as claimed): no time-out of wait_not_focused ends the session;
\* the driver goes on after it.
C19_NotFocusedNonFatal ==
    \A i \in 1..Len(steps) :
        (steps[i][1] = "not_focused" /\ TimedOut(i)) =>
            ~(i = Len(steps) /\ cause = "exception")

\* the entries of the log with input (keys, typed text)
IsInput(e) == e[1] \in {"key", "type"}

\* the entries that end a step: a wait's outcome, or the driver's entry
EndsStep(e) == e[1] \in {"wait", "not_focused", "file", "idle", "workflow"}

\* the input sent for the wait logged at j: what was sent since the wait before
InputBefore(j) ==
    LET lo == CHOOSE i \in 0..(j - 1) :
                 /\ i > 0 => EndsStep(steps[i])
                 /\ \A k \in (i + 1)..(j - 1) : ~EndsStep(steps[k])
    IN SelectSeq(SubSeq(steps, lo + 1, j - 1), IsInput)

\* the input sent after the wait logged at j, up to the next wait
InputAfter(j) ==
    LET hi == CHOOSE i \in (j + 1)..(Len(steps) + 1) :
                 /\ i <= Len(steps) => EndsStep(steps[i])
                 /\ \A k \in (j + 1)..(i - 1) : ~EndsStep(steps[k])
    IN SelectSeq(SubSeq(steps, j + 1, hi - 1), IsInput)

Contains(big, small) ==
    /\ small # <<>>
    /\ \E k \in 0..(Len(big) - Len(small)) : SubSeq(big, k + 1, k + Len(small)) = small

\* after the wait logged at j the step's input was sent again
Resent(j) == Contains(InputAfter(j), InputBefore(j))

KeyEntries(keys) == [i \in 1..Len(keys) |-> <<"key", 0, keys[i]>>]

\* one call of open_print_dialog, logged from entry i on: the chord once when
\* the first wait found the dialog, else a second time; a second time-out
\* ends the session
OpenPrintDialogCall(i) ==
    LET keys == print_dialog_keys(cfg.kicad6)
        w1 == i + Len(keys) + 1
        w2 == w1 + Len(keys) + 2
    IN  Len(steps) >= w1 =>
          /\ SubSeq(steps, i + 1, w1 - 1) = KeyEntries(keys)
          /\ IF ~TimedOut(w1)
             THEN Len(steps) > w1 =>
                    /\ steps[w1 + 1][1] # "info"
                    /\ steps[w1 + 1] # <<"key", 0, keys[1]>>
             ELSE /\ Len(steps) < w2 => pc = "step"
                  /\ Len(steps) >= w2 =>
                       /\ SubSeq(steps, w1 + 2, w2 - 1) = KeyEntries(keys)
                       /\ IF TimedOut(w2)
                          THEN Len(steps) = w2 /\ cause = "exception"
                          ELSE Len(steps) > w2 =>
                                 /\ steps[w2 + 1][1] # "info"
                                 /\ steps[w2 + 1] # <<"key", 0, keys[1]>>

OpensPrintDialog(i) == steps[i] = <<"info", 0, "Open File->Print">>

\* the wait logged at j is the first wait of a call of open_print_dialog
FirstPrintWait(j) ==
    LET i == j - Len(print_dialog_keys(cfg.kicad6)) - 1 IN
    i >= 1 /\ OpensPrintDialog(i)

\* the wait logged at j is a wait_not_focused of exit_pcbnew (the calls with 5 s)
ExitWait(j) == steps[j][1] = "not_focused" /\ steps[j][2] = 5

\* C20 (stated as claimed): a call of open_print_dialog sends the chord once
\* when the first wait finds the Print dialog and twice otherwise, a second
\* time-out ends the session, and after no other time-out of the workflow is
\* the step's input sent again.
C20_SingleRetry ==
    /\ \A i \in 1..Len(steps) : OpensPrintDialog(i) => OpenPrintDialogCall(i)
    /\ \A j \in 1..Len(steps) :
          (InFlow(j) /\ TimedOut(j) /\ ~FirstPrintWait(j)) => ~Resent(j)

\* C20 as amended: the same, but for exit_pcbnew, which after its first
\* wait_not_focused sends Return and ctrl+q whether the wait timed out or not.
C20_SingleRetry_Amended ==
    /\ \A i \in 1..Len(steps) : OpensPrintDialog(i) => OpenPrintDialogCall(i)
    /\ \A j \in 1..Len(steps) :
          (InFlow(j) /\ TimedOut(j) /\ ~FirstPrintWait(j) /\ ~ExitWait(j)) => ~Resent(j)

\* C20 witness: in a call of open_print_dialog the first wait timed out, the
\* chord was sent again and the second wait found the Print dialog.
C20_Witness ==
    \E i \in 1..Len(steps) :
        LET w1 == i + Len(print_dialog_keys(cfg.kicad6)) + 1
            w2 == w1 + Len(print_dialog_keys(cfg.kicad6)) + 2
        IN  /\ OpensPrintDialog(i)
            /\ Len(steps) > w2
            /\ TimedOut(w1) /\ Resent(w1)
            /\ steps[w2] = <<"wait", 0, "Print">>

\* the base value, in seconds, of the delay the engine executes at each place:
\* after the 'already running' dialog was dismissed, after the fill-zones
\* key, while the 3D viewer is set up, after the DRC of KiCad 6 was started
BaseDelay(where) ==
    CASE where = "" -> 5
      [] where = "fill zones" -> 1
      [] where = "3D viewer" -> 1
      [] where = "DRC" -> 12

\* C21 (stated as claimed): every delay the session has executed lasted its
\* base value times the session's --time_out_scale.
C21_DelaysScaled ==
    \A i \in 1..Len(steps) :
        steps[i][1] = "sleep" =>
            steps[i][2] = BaseDelay(steps[i][3]) * args.time_out_scale

\* the input a driver sends when all its steps are run
RECURSIVE InputsOf(_)
InputsOf(script) ==
    IF script = <<>> THEN <<>>
    ELSE LET s == Head(script) IN
         (IF s.op = "key" THEN KeyEntries(s.arg)
          ELSE IF s.op = "type" THEN <<<<"type", 0, s.arg>>>>
          ELSE <<>>) \o InputsOf(Tail(script))

\* the input the workflow driver of this session has sent
FlowInputs ==
    LET w == CHOOSE i \in 1..Len(steps) : steps[i][1] = "workflow" IN
    SelectSeq(SubSeq(steps, w + 1, Len(steps)), IsInput)

IsPrefix(a, b) == Len(a) <= Len(b) /\ SubSeq(b, 1, Len(a)) = a

\* the DRC of this session is run in a launched target, with the input of the
\* driver of the given tool version
RunsDrcDriver(kicad6) ==
    /\ launches >= 1
    /\ IsPrefix(FlowInputs, InputsOf(run_drc(kicad6, cfg.save, args.time_out_scale)))

\* C22 (stated as claimed): a run_drc session that has started its DRC runs it
\* in a supervised target, with the steps of run_drc_5_1 for KiCad 5 and the
\* steps of run_drc_6_0 for KiCad 6.
C22_DrcByVersion ==
    (args.command = "run_drc" /\ workflows >= 1) => RunsDrcDriver(cfg.kicad6)

\* C22 as amended: for KiCad 5 the steps of run_drc_5_1 in a supervised target,
\* the report being there once the 'Disk File Report Completed' dialog was
\* seen; for KiCad 6 the Python DRC, with no target launched, no input sent
\* and the steps of run_drc_6_0 never run.
C22_DrcByVersion_Amended ==
    (args.command = "run_drc" /\ workflows >= 1) =>
        IF cfg.kicad6
        THEN launches = 0 /\ steps = <<>> /\ wpc = 0 /\ artifact
        ELSE /\ RunsDrcDriver(FALSE)
             /\ artifact <=>
                  \E i \in 1..Len(steps) :
                      steps[i] = <<"wait", 0, "Disk File Report Completed">>

\* C22 witness: a KiCad 6 run_drc session has exited after the Python DRC,
\* and no target was ever launched.
C22_Witness ==
    /\ pc = "exited" /\ args.command = "run_drc" /\ cfg.kicad6
    /\ workflows = 1 /\ launches = 0 /\ artifact

\* C23 (stated as claimed, checked under SpecIdle): the loads the quiescence
\* check has read are the loads of the target this session started, whatever
\* other targets run on the machine.
C23_OwnProcessSampled == sampled = own

\* the last n samples exist and are all idle (not above 5%)
IdleStreak(n) ==
    /\ Len(sampled) >= n
    /\ \A k \in (Len(sampled) - n + 1)..Len(sampled) : sampled[k] <= 5

\* three idle samples in a row were read at some time
HadStreak ==
    \E e \in 3..Len(sampled) : \A k \in (e - 2)..e : sampled[k] <= 5

\* C25 (stated as claimed, checked under SpecIdle): the wait has returned True
\* exactly when three samples in a row were idle, a sample above 5% sets the
\* streak to zero, it has returned False exactly when 2*timeout samples were
\* read without such a streak, and it never reads more than 2*timeout samples.
C25_IdleVerdict ==
    /\ verdict = "True" <=> HadStreak
    /\ verdict = "True" => IdleStreak(3)
    /\ (sampled # <<>> /\ sampled[Len(sampled)] > 5) => finished = 0
    /\ verdict = "False" <=> (Len(sampled) = 2 * idle_timeout /\ ~HadStreak)
    /\ Len(sampled) <= 2 * idle_timeout

\* the positions of the main program after the attempt block was left
AfterAttempts ==
    {"after_loop", "cleanup_pcb", "cleanup_pcb_call", "cleanup_config",
     "cleanup_project", "final_exit", "atexit", "exited"}

\* C24: the only display and the only target that may live are those of the
\* latest attempt; when an attempt is about to create new ones none lives; and
\* once the attempt block was left, by its end, by exit() or by an exception,
\* none lives.
C24_OneDisplayOneTarget ==
    /\ xvfb \in {0, launches} /\ proc \in {0, launches}
    /\ pc = "attempt" => (xvfb = 0 /\ proc = 0)
    /\ pc \in AfterAttempts => (xvfb = 0 /\ proc = 0)

\* C24 witness: the second attempt of a session has its display and its
\* target, after the first attempt's target had exited.
C24_Witness ==
    pc = "wait_start" /\ retry = 1 /\ launches = 2 /\ xvfb = 2 /\ proc = 2

\* C26: at most one workflow driver is started in a session; while it runs the
\* target of that attempt was found alive; and no attempt is started once a
\* driver was started.
C26_WorkflowOnce ==
    /\ [](workflows <= 1)
    /\ [](pc \in {"workflow", "step"} => (polled = "alive" /\ proc = launches /\ proc # 0))
    /\ [][workflows >= 1 => launches' = launches]_vars

\* C26 witness: a session has exited whose driver was started on the second
\* attempt and ended by an exception.
C26_Witness ==
    /\ pc = "exited" /\ workflows = 1 /\ launches = 2 /\ cause = "exception"

\* C27: while restore_pcb runs, and from the first restore of the design file
\* or of the preference files on, no target and no display lives.
C27_RestoreAfterTeardown ==
    (rpc # "idle" \/ restored.pcb > 0 \/ restored.config > 0 \/ restored.project > 0)
        => (proc = 0 /\ xvfb = 0 /\ pc \in AfterAttempts)

\* C27 witness: a session that launched the target and whose driver raised an
\* exception has exited with its three restores run.
C27_Witness ==
    /\ pc = "exited" /\ launches >= 1 /\ cause = "exception"
    /\ restored = [pcb |-> 1, config |-> 1, project |-> 1]

\* an export session one of whose requested layers is not valid
BadExportLayer ==
    /\ args.command = "export"
    /\ \E i \in 1..Len(args.layers) : ~ClaimAccepts(args.layers[i], cfg.layer_cnt)

\* the preferences file was never written and no target launched
PrefsUntouched == prefs = "user" /\ launches = 0 /\ xvfb = 0 /\ proc = 0

\* the preferences file is written by the engine only with its snapshot taken
SnapshotBeforeWrite == prefs = "engine" => "config" \in created

StartTimedOut == steps # <<>> /\ steps[1] = <<"wait", WAIT_START, "timeout">>

\* C29: after a startup wait that timed out the supervisor waits again for the
\* main window, for 5 seconds; when that wait times out too the session ends
\* with PCBNEW_ERROR in the same attempt; and a new attempt is started only
\* after the target was found gone.
C29_StartTimeout ==
    /\ [](StartTimedOut /\ Len(steps) >= 2 => steps[2][1] = "wait" /\ steps[2][2] = 5)
    /\ [](StartTimedOut /\ FollowedBy(<<<<"wait", 5, "timeout">>>>) =>
            /\ pc \in {"atexit", "exited"}
            /\ cause = "start_timeout" /\ exit_level = PCBNEW_ERROR
            /\ pc = "exited" => status = PCBNEW_ERROR)
    /\ [][(launches' > launches /\ launches >= 1) => (polled = "exited" /\ proc = 0)]_vars

\* C29 witness: on the first attempt both waits timed out and the session has
\* exited with PCBNEW_ERROR.
C29_Witness ==
    /\ pc = "exited" /\ launches = 1 /\ status = PCBNEW_ERROR
    /\ steps = <<<<"wait", WAIT_START, "timeout">>, <<"wait", 5, "timeout">>>>

====
